---- MODULE Spec2Model ----
(***************************************************************************)
(* The ThingTalk static semantic analyzer (lib/typecheck.js): the Scope,   *)
(* the schema helpers, the primitive checker, the table/stream composer    *)
(* and the program driver, over a heap of schema objects.                  *)
(***************************************************************************)
EXTENDS Integers, Sequences, FiniteSets, TLC

\* ------------------------------------------------------------------------
\* JavaScript objects used as maps: a sequence of [k, v] entries, the keys in
\* insertion order (the order for..in and Object.keys walk them).
\* ------------------------------------------------------------------------
Empty == <<>>

Has(m, k) == \E i \in 1..Len(m) : m[i].k = k

Pos(m, k) == CHOOSE i \in 1..Len(m) : m[i].k = k

Get(m, k) == m[Pos(m, k)].v

Put(m, k, v) ==
    IF Has(m, k) THEN [m EXCEPT ![Pos(m, k)] = [k |-> k, v |-> v]]
    ELSE Append(m, [k |-> k, v |-> v])

Del(m, k) == SelectSeq(m, LAMBDA e : e.k # k)

Keys(m) == [i \in 1..Len(m) |-> m[i].k]

KeySet(m) == {m[i].k : i \in 1..Len(m)}

RECURSIVE Assign(_, _)
Assign(m, n) ==
    IF n = <<>> THEN m ELSE Assign(Put(m, Head(n).k, Head(n).v), Tail(n))

Range(s) == {s[i] : i \in 1..Len(s)}

IndexOf(s, x) ==
    IF \E i \in 1..Len(s) : s[i] = x
    THEN (CHOOSE i \in 1..Len(s) : s[i] = x /\ \A j \in 1..(i-1) : s[j] # x) - 1
    ELSE -1

\* ------------------------------------------------------------------------
\* Types.  k is the kind, p the unit / entity kind / variable name, r the
\* schema reference of a FunctionDef.
\* ------------------------------------------------------------------------
Ty(k, p) == [k |-> k, p |-> p, r |-> 0]

TNumber == Ty("Number", "")
TString == Ty("String", "")
TBoolean == Ty("Boolean", "")
TDate == Ty("Date", "")
TLocation == Ty("Location", "")
TAny == Ty("Any", "")
TMeasure(u) == Ty("Measure", u)
TEntity(t) == Ty("Entity", t)
TFunctionDef(ref) == [k |-> "FunctionDef", p |-> "", r |-> ref]
\* the JavaScript value undefined, where a type was looked up and not found
Undef == Ty("undefined", "")

\* Type.isAssignable(type, assignableTo, typeScope, lax): answers whether src
\* may be used where dst is expected and the type-variable scope it leaves.
IsAssignable(src, dst, ts, coerce) ==
    IF dst.k = "var" THEN
        IF Has(ts, dst.p) THEN [ok |-> Get(ts, dst.p) = src, ts |-> ts]
        ELSE [ok |-> TRUE, ts |-> Put(ts, dst.p, src)]
    ELSE IF src.k = "Any" \/ dst.k = "Any" THEN [ok |-> TRUE, ts |-> ts]
    ELSE IF src.k = "Measure" /\ dst.k = "Measure" THEN
        IF dst.p = "" THEN
            IF Has(ts, "_unit") THEN [ok |-> Get(ts, "_unit").p = src.p, ts |-> ts]
            ELSE [ok |-> TRUE, ts |-> Put(ts, "_unit", Ty("unit", src.p))]
        ELSE [ok |-> src.p = dst.p, ts |-> ts]
    ELSE IF src.k = "Entity" /\ dst.k = "Entity" THEN [ok |-> src.p = dst.p, ts |-> ts]
    ELSE IF coerce /\ dst.k = "String" THEN [ok |-> TRUE, ts |-> ts]
    ELSE [ok |-> src.k = dst.k /\ src.k \notin {"Measure", "Entity", "FunctionDef", "undefined"},
          ts |-> ts]

\* ------------------------------------------------------------------------
\* The heap.  S holds the schema objects (FunctionDef), X the objects that
\* schemas hold in their index field; a reference is a position, 0 is null.
\* A checker run threads the record m = [S, X, err, own, foreign]:
\*   err      the error raised ("" while none),
\*   own      the schema clone made for the node whose case is running,
\*   foreign  the objects written while they were not that clone (history).
\* ------------------------------------------------------------------------
Schema(args, types, index, inReq, inOpt, out) ==
    [args |-> args, types |-> types, index |-> index,
     inReq |-> inReq, inOpt |-> inOpt, out |-> out]

\* index[args[i]] = i, counted from 0 as the code counts
IndexFor(args) == [i \in 1..Len(args) |-> [k |-> args[i], v |-> i - 1]]

Entry(k, v) == [k |-> k, v |-> v]

\* Signatures the schema oracle serves (Thingpedia functions)
WeatherArgs == <<"location", "temperature", "status">>
AdviceArgs == <<"temperature", "count", "text">>
PostArgs == <<"status">>
SendArgs == <<"to", "text">>
ProfileArgs == <<"user", "name">>

OracleSchemas == <<
    Schema(WeatherArgs, <<TLocation, TMeasure("C"), TString>>, 1,
           <<Entry("location", TLocation)>>, Empty,
           <<Entry("temperature", TMeasure("C")), Entry("status", TString)>>),
    Schema(AdviceArgs, <<TMeasure("C"), TNumber, TString>>, 2,
           <<Entry("temperature", TMeasure("C"))>>, <<Entry("count", TNumber)>>,
           <<Entry("text", TString)>>),
    Schema(PostArgs, <<TString>>, 3,
           <<Entry("status", TString)>>, Empty, Empty),
    Schema(SendArgs, <<TEntity("tt:phone_number"), TString>>, 4,
           <<Entry("to", TEntity("tt:phone_number"))>>, <<Entry("text", TString)>>, Empty),
    Schema(ProfileArgs, <<TEntity("tt:username"), TString>>, 5,
           Empty, Empty, <<Entry("user", TEntity("tt:username")), Entry("name", TString)>>)
>>

OracleIndexes ==
    <<IndexFor(WeatherArgs), IndexFor(AdviceArgs), IndexFor(PostArgs), IndexFor(SendArgs),
      IndexFor(ProfileArgs)>>

OracleNames == <<"weather", "advice", "post", "send", "profile">>

\* Builtin.emptyFunction and Builtin.Actions.notify / return / save
EmptyFunctionRef == Len(OracleSchemas) + 1
NotifyRef == Len(OracleSchemas) + 2
ReturnRef == Len(OracleSchemas) + 3
SaveRef == Len(OracleSchemas) + 4

InitS == OracleSchemas \o [i \in 1..4 |-> Schema(<<>>, <<>>, Len(OracleSchemas) + i, Empty, Empty, Empty)]
InitX == OracleIndexes \o [i \in 1..4 |-> Empty]

\* the objects a checker never owns: the oracle's and the built-in constants
SharedRefs == 1..Len(InitS)

InitM == [S |-> InitS, X |-> InitX, err |-> "", own |-> 0, foreign |-> {}]

Ok(m) == m.err = ""

Throw(m, e) == IF Ok(m) THEN [m EXCEPT !.err = e] ELSE m

\* sequencing: the result v of one step is handed to the code K that follows it
Then(v, K(_)) == K(v)

\* FunctionDef.clone(): a new schema object whose arrays and maps are copies
clone(m, ref) ==
    [m EXCEPT !.S = Append(@, [m.S[ref] EXCEPT !.index = Len(m.X) + 1]),
              !.X = Append(@, m.X[m.S[ref].index])]

NewRef(m) == Len(m.S)

Own(m, ref) == [m EXCEPT !.own = ref]

\* a write to schema object ref (any field but the contents of its index)
WriteS(m, ref, rec) ==
    [m EXCEPT !.S[ref] = rec,
              !.foreign = IF ref = m.own \/ rec = m.S[ref] THEN @ ELSE @ \cup {<<"schema", ref>>}]

\* a write into the index object x
WriteX(m, x, map) ==
    [m EXCEPT !.X[x] = map,
              !.foreign = IF (m.own # 0 /\ m.S[m.own].index = x) \/ map = m.X[x] THEN @
                          ELSE @ \cup {<<"index", x>>}]

IndexOfSchema(m, ref) == m.X[m.S[ref].index]

\* ------------------------------------------------------------------------
\* class Scope
\* ------------------------------------------------------------------------
Scope_new ==
    [globalScope |-> Empty, scope |-> Empty, conflicts |-> {},
     has_event |-> FALSE, inReq |-> Empty, lambda_args |-> Empty]

\* new Scope(scope): Object.assign copies every map one level deep.  The
\* values of _lambda_args are arrays, which the copy shares with the scope
\* it was made from (see SharingLambdaArgs).
Scope_copy(scope) ==
    [globalScope |-> Assign(Empty, scope.globalScope), scope |-> Assign(Empty, scope.scope),
     conflicts |-> scope.conflicts, has_event |-> scope.has_event,
     inReq |-> Assign(Empty, scope.inReq), lambda_args |-> Assign(Empty, scope.lambda_args)]

\* the arrays of _lambda_args are one set of objects for a scope and the
\* copies made of it: a rename pushed through any of them (holder) is read
\* through every other (sc)
SharingLambdaArgs(sc, holder) == [sc EXCEPT !.lambda_args = holder.lambda_args]

Scope_has(sc, name) == Has(sc.scope, name)

Scope_hasGlobal(sc, name) == Has(sc.globalScope, name)

Scope_hasInReq(sc) == Len(sc.inReq) > 0

Scope_getSchema(sc, name) == IF Scope_hasGlobal(sc, name) THEN Get(sc.globalScope, name) ELSE 0

Scope_add(sc, name, type) == [sc EXCEPT !.scope = Put(@, name, type)]

\* answers [sc, m]; raises Conflict on a redefinition
Scope_addGlobal(sc, name, ref, m) ==
    IF ~Ok(m) THEN [sc |-> sc, m |-> m]
    ELSE IF Scope_hasGlobal(sc, name) THEN [sc |-> sc, m |-> Throw(m, "Conflict")]
    ELSE LET m2 == clone(m, ref)
         IN [sc |-> [sc EXCEPT !.globalScope = Put(@, name, NewRef(m2))], m |-> m2]

Scope_addConflict(sc, name) == [sc EXCEPT !.conflicts = @ \cup {name}]

Scope_popInReq(sc, name, type) == [sc EXCEPT !.inReq = Put(@, name, type)]

Scope_removeInReq(sc, name) == [sc EXCEPT !.inReq = Del(@, name)]

Scope_clearInReq(sc) == [sc EXCEPT !.inReq = Empty]

Scope_isLambdaArg(sc, arg) == Has(sc.lambda_args, arg)

Scope_updateLambdaArgs(sc, arg, name) ==
    [sc EXCEPT !.lambda_args = Put(@, arg, Append(Get(sc.lambda_args, arg), name))]

\* delete on a Set leaves the set as it is; only the local goes
Scope_remove(sc, name) == [sc EXCEPT !.scope = Del(@, name)]

RECURSIVE Scope_assign(_, _, _)
Scope_assign(sc, pairs, m) ==
    IF pairs = <<>> \/ ~Ok(m) THEN [sc |-> sc, m |-> m]
    ELSE LET name == Head(pairs).k
             type == Head(pairs).v
             r == IF type.k \in {"Table", "Stream"} THEN Scope_addGlobal(sc, name, EmptyFunctionRef, m)
                  ELSE IF type.k = "FunctionDef" THEN Scope_addGlobal(sc, name, type.r, m)
                  ELSE [sc |-> Scope_add(sc, name, type), m |-> m]
         IN Scope_assign(r.sc, Tail(pairs), r.m)

\* this._globalScope[name] || this._scope[name]; a conflicted name raises
Scope_get(sc, name) ==
    IF name \in sc.conflicts THEN Ty("FieldConflict", "")
    ELSE IF Has(sc.globalScope, name) THEN TFunctionDef(Get(sc.globalScope, name))
    ELSE IF Has(sc.scope, name) THEN Get(sc.scope, name)
    ELSE Undef

RECURSIVE MergeNames(_, _, _)
MergeNames(sc, other, names) ==
    IF names = <<>> THEN sc
    ELSE MergeNames(Scope_add(sc, Head(names), Scope_get(other, Head(names))), other, Tail(names))

Scope_merge(sc, other) ==
    LET a == MergeNames(sc, other, Keys(other.globalScope))
        b == MergeNames(a, other, Keys(other.scope))
    IN [b EXCEPT !.inReq = Assign(@, other.inReq)]

\* clean(args): args is [given, names]; given is FALSE for clean()
NoArgs == [given |-> FALSE, names |-> <<>>]

Args(names) == [given |-> TRUE, names |-> names]

\* a clean that leaves $has_event as it is: the variant against which the
\* lifecycle of the flag is tested
Scope_cleanKeepingEvent(sc, args) ==
    [globalScope |-> IF ~args.given THEN sc.globalScope
                     ELSE SelectSeq(sc.globalScope, LAMBDA e : e.k \notin Range(args.names)),
     scope |-> Empty, conflicts |-> {}, has_event |-> sc.has_event,
     inReq |-> Empty, lambda_args |-> Empty]

Scope_clean(sc, args) ==
    [globalScope |-> IF ~args.given THEN sc.globalScope
                     ELSE SelectSeq(sc.globalScope, LAMBDA e : e.k \notin Range(args.names)),
     scope |-> Empty, conflicts |-> {}, has_event |-> FALSE,
     inReq |-> Empty, lambda_args |-> Empty]

\* a prefix that leaves the names as they are: the variant against which
\* the qualification of an alias is tested
Scope_prefixKeepingNames(sc, prefix) == sc

\* prefix(prefix): every local is renamed to prefix.name
Scope_prefix(sc, prefix) ==
    [sc EXCEPT !.scope = Assign(Empty, [i \in 1..Len(sc.scope) |->
                             Entry(prefix \o "." \o sc.scope[i].k, sc.scope[i].v)])]

Scope_initLambdaArgs(sc, args, m) ==
    LET r == Scope_assign(sc, args, m)
    IN IF ~Ok(r.m) THEN r
       ELSE [sc |-> [r.sc EXCEPT !.lambda_args =
                        Assign(@, [i \in 1..Len(args) |-> Entry(args[i].k, <<>>)])],
             m |-> r.m]

\* ------------------------------------------------------------------------
\* Values and their types
\* ------------------------------------------------------------------------
Value(kind, name, type) == [kind |-> kind, name |-> name, type |-> type]

VNumber == Value("Number", "", "")
VString == Value("String", "", "")
VDate == Value("Date", "", "")
VLocation == Value("Location", "", "")
VMeasure(u) == Value("Measure", "", u)
VEntity(t) == Value("Entity", "", t)
VVarRef(name) == Value("VarRef", name, "")
VEvent(name) == Value("Event", name, "")
VUndefined == Value("Undefined", "", "remote")

InputParam(name, value) == [name |-> name, value |-> value]

\* Value.getType()
getType(value) ==
    CASE value.kind = "Number" -> TNumber
      [] value.kind = "String" -> TString
      [] value.kind = "Date" -> TDate
      [] value.kind = "Location" -> TLocation
      [] value.kind = "Measure" -> TMeasure(value.type)
      [] value.kind = "Entity" -> TEntity(value.type)
      [] value.kind = "Event" -> IF value.name = "program_id" THEN TEntity("tt:program_id") ELSE TString
      [] value.kind = "Undefined" -> TAny
      [] OTHER -> TAny

IsContextLocation(name) == name \in {"$context.location.current_location", "$context.location.home"}

\* a typeForValue that never asks for has_event: the variant against which
\* the rule on $event values is tested
typeForValueAnyEvent(value, scope) ==
    IF value.kind = "VarRef" THEN
        LET type == IF IsContextLocation(value.name) THEN TLocation ELSE Scope_get(scope, value.name)
        IN IF type.k = "FieldConflict" THEN [err |-> "FieldConflict", type |-> Undef]
           ELSE IF type = Undef THEN [err |-> "VariableNotInScope", type |-> Undef]
           ELSE [err |-> "", type |-> type]
    ELSE [err |-> "", type |-> getType(value)]

\* typeForValue(value, scope): [err, type]
typeForValue(value, scope) ==
    IF value.kind = "VarRef" THEN
        LET type == IF IsContextLocation(value.name) THEN TLocation ELSE Scope_get(scope, value.name)
        IN IF type.k = "FieldConflict" THEN [err |-> "FieldConflict", type |-> Undef]
           ELSE IF type = Undef THEN [err |-> "VariableNotInScope", type |-> Undef]
           ELSE [err |-> "", type |-> type]
    ELSE IF value.kind = "Event" /\ value.name # "program_id" /\ ~scope.has_event
         THEN [err |-> "VariableNotInScope", type |-> Undef]
    ELSE [err |-> "", type |-> getType(value)]

\* a type variable is a JavaScript string; Array and Tuple hold types
TVar(name) == Ty("var", name)
TArray(elem) == [k |-> "Array", p |-> "", r |-> 0, elem |-> elem]
TTuple(schema) == [k |-> "Tuple", p |-> "", r |-> 0, schema |-> schema]

\* resolveTypeVars(type, typeScope): the first test is type === 'string', so
\* only the variable spelled 'string' is looked up; a Measure takes the
\* bound unit
RECURSIVE resolveTypeVars(_, _)
resolveTypeVars(type, typeScope) ==
    IF type.k = "var" /\ type.p = "string" THEN
        IF Has(typeScope, "string") THEN resolveTypeVars(Get(typeScope, "string"), typeScope) ELSE Undef
    ELSE IF type.k = "Array" THEN TArray(resolveTypeVars(type.elem, typeScope))
    ELSE IF type.k = "Tuple" THEN
        TTuple([i \in 1..Len(type.schema) |-> resolveTypeVars(type.schema[i], typeScope)])
    ELSE IF type.k = "Measure" /\ Has(typeScope, "_unit") /\ Get(typeScope, "_unit").p # ""
         THEN TMeasure(Get(typeScope, "_unit").p)
    ELSE type

\* typecheckPrincipal(principal): the error it raises, "" for none
ALLOWED_PRINCIPAL_TYPES == {"tt:contact", "tt:username"}

typecheckPrincipal(principal) ==
    IF principal.type \in ALLOWED_PRINCIPAL_TYPES THEN "" ELSE "InvalidPrincipal"

\* ------------------------------------------------------------------------
\* Operator tables
\* ------------------------------------------------------------------------
Cmp == <<<<TString, TString, TBoolean>>, <<TMeasure(""), TMeasure(""), TBoolean>>,
         <<TNumber, TNumber, TBoolean>>, <<TDate, TDate, TBoolean>>>>

\* Builtin.BinaryOps[operator].types; <<>> for an operator the table lacks
BinaryOps(operator) ==
    CASE operator = "+" -> <<<<TMeasure(""), TMeasure(""), TMeasure("")>>, <<TNumber, TNumber, TNumber>>,
                             <<TString, TString, TString>>>>
      [] operator = "-" -> <<<<TMeasure(""), TMeasure(""), TMeasure("")>>, <<TNumber, TNumber, TNumber>>,
                             <<TDate, TDate, TMeasure("ms")>>>>
      [] operator = "*" -> <<<<TMeasure(""), TNumber, TMeasure("")>>, <<TNumber, TMeasure(""), TMeasure("")>>,
                             <<TNumber, TNumber, TNumber>>>>
      [] operator = "/" -> <<<<TMeasure(""), TMeasure(""), TNumber>>, <<TNumber, TNumber, TNumber>>>>
      [] operator \in {"&&", "||"} -> <<<<TBoolean, TBoolean, TBoolean>>>>
      [] operator \in {">", "<", ">=", "<="} -> Cmp
      [] operator \in {"=", "!="} -> <<<<TAny, TAny, TAny>>>>
      [] operator = "=~" -> <<<<TString, TString, TString>>>>
      [] OTHER -> <<>>

\* Builtin.ScalarExpressionOps[operator].types
ScalarExpressionOps(operator) ==
    CASE operator = "+" -> <<<<TNumber, TNumber, TNumber>>, <<TMeasure(""), TMeasure(""), TMeasure("")>>,
                             <<TDate, TMeasure("ms"), TDate>>>>
      [] operator = "-" -> <<<<TNumber, TNumber, TNumber>>, <<TMeasure(""), TMeasure(""), TMeasure("")>>,
                             <<TDate, TDate, TMeasure("ms")>>>>
      [] operator = "*" -> <<<<TNumber, TNumber, TNumber>>, <<TMeasure(""), TNumber, TMeasure("")>>>>
      [] operator = "/" -> <<<<TNumber, TNumber, TNumber>>, <<TMeasure(""), TNumber, TMeasure("")>>>>
      [] OTHER -> <<>>

\* Builtin.Aggregations[operator].types
Aggregations(operator) ==
    CASE operator = "count" -> <<<<TAny, TNumber>>>>
      [] operator \in {"min", "max", "sum", "avg"} ->
            <<<<TNumber, TNumber>>, <<TMeasure(""), TMeasure("")>>>>
      [] OTHER -> <<>>

\* the first overload, from position i on, that the operand types fit
RECURSIVE FirstScalarOverload(_, _, _, _)
FirstScalarOverload(types, i, type_lhs, type_rhs) ==
    IF i > Len(types) THEN [err |-> "InvalidParameterTypes", type |-> Undef]
    ELSE LET a == IsAssignable(type_lhs, types[i][1], Empty, TRUE)
             b == IsAssignable(type_rhs, types[i][2], a.ts, TRUE)
         IN IF ~a.ok \/ ~b.ok THEN FirstScalarOverload(types, i + 1, type_lhs, type_rhs)
            ELSE IF types[i][3].k = "Measure" /\ Has(b.ts, "_unit") /\ Get(b.ts, "_unit").p # ""
                 THEN [err |-> "", type |-> TMeasure(Get(b.ts, "_unit").p)]
            ELSE [err |-> "", type |-> types[i][3]]

\* resolveScalarExpressionOps(type_lhs, operator, type_rhs): [err, type]
resolveScalarExpressionOps(type_lhs, operator, type_rhs) ==
    IF ScalarExpressionOps(operator) = <<>> THEN [err |-> "InvalidOperator", type |-> Undef]
    ELSE FirstScalarOverload(ScalarExpressionOps(operator), 1, type_lhs, type_rhs)

RECURSIVE FirstFilterOverload(_, _, _, _)
FirstFilterOverload(types, i, type_lhs, type_rhs) ==
    IF i > Len(types) THEN [err |-> "InvalidParameterTypes", overload |-> <<>>]
    ELSE LET a == IsAssignable(type_lhs, types[i][1], Empty, TRUE)
             b == IsAssignable(type_rhs, types[i][2], a.ts, TRUE)
             c == IsAssignable(types[i][3], TBoolean, b.ts, TRUE)
         IN IF ~a.ok \/ ~b.ok \/ ~c.ok THEN FirstFilterOverload(types, i + 1, type_lhs, type_rhs)
            ELSE [err |-> "", overload |-> types[i]]

\* a resolveFilterOverload that goes by the operand types alone, without the
\* rule for Entity and without the test of the result type: the variant
\* against which the rule for =~ on entities is tested
RECURSIVE FirstOverloadByOperands(_, _, _, _)
FirstOverloadByOperands(types, i, type_lhs, type_rhs) ==
    IF i > Len(types) THEN [err |-> "InvalidParameterTypes", overload |-> <<>>]
    ELSE LET a == IsAssignable(type_lhs, types[i][1], Empty, TRUE)
             b == IsAssignable(type_rhs, types[i][2], a.ts, TRUE)
         IN IF ~a.ok \/ ~b.ok THEN FirstOverloadByOperands(types, i + 1, type_lhs, type_rhs)
            ELSE [err |-> "", overload |-> types[i]]

resolveFilterOverloadByOperands(type_lhs, operator, type_rhs) ==
    IF BinaryOps(operator) = <<>> THEN [err |-> "InvalidOperator", overload |-> <<>>]
    ELSE FirstOverloadByOperands(BinaryOps(operator), 1, type_lhs, type_rhs)

\* resolveFilterOverload(type_lhs, operator, type_rhs): [err, overload]
resolveFilterOverload(type_lhs, operator, type_rhs) ==
    IF BinaryOps(operator) = <<>> THEN [err |-> "InvalidOperator", overload |-> <<>>]
    ELSE IF type_lhs.k = "Entity" /\ operator = "=~"
         THEN [err |-> "InvalidParameterTypes", overload |-> <<>>]
    ELSE FirstFilterOverload(BinaryOps(operator), 1, type_lhs, type_rhs)

RECURSIVE FirstAggregationOverload(_, _, _)
FirstAggregationOverload(types, i, fieldType) ==
    IF i > Len(types) THEN [err |-> "InvalidAggregation", overload |-> <<>>]
    ELSE LET a == IsAssignable(fieldType, types[i][1], Empty, TRUE)
         IN IF ~a.ok THEN FirstAggregationOverload(types, i + 1, fieldType)
            ELSE [err |-> "", overload |-> [j \in 1..Len(types[i]) |-> resolveTypeVars(types[i][j], a.ts)]]

\* resolveAggregationOverload(ast, operator, field, schema): [err, overload];
\* the caller stores the overload on the node and takes overload[2] as the type
resolveAggregationOverload(operator, field, schema) ==
    IF ~Has(schema.out, field) THEN [err |-> "InvalidAggregationField", overload |-> <<>>]
    ELSE IF Aggregations(operator) = <<>> THEN [err |-> "InvalidAggregation", overload |-> <<>>]
    ELSE FirstAggregationOverload(Aggregations(operator), 1, Get(schema.out, field))

\* ------------------------------------------------------------------------
\* Schema helpers.  Each works on the schema object ref of the heap in m and
\* answers the new m, or [sc, m] when it also updates the scope.
\* ------------------------------------------------------------------------
NumInput(schema) == Len(schema.inReq) + Len(schema.inOpt)

Min(a, b) == IF a < b THEN a ELSE b

RECURSIVE RemoveAll(_, _)
RemoveAll(sc, names) ==
    IF names = <<>> THEN sc ELSE RemoveAll(Scope_remove(sc, Head(names)), Tail(names))

\* a cleanOutput that leaves the outputs in place: the variant against which
\* the property of Aggregation outputs is tested
cleanOutputLeavingOutputs(ref, scope, m) == [sc |-> scope, m |-> m]

\* cleanOutput(schema, scope)
cleanOutput(ref, scope, m) ==
    LET schema == m.S[ref]
        num_input == NumInput(schema)
        m1 == WriteS(m, ref, [schema EXCEPT !.args = SubSeq(@, 1, Min(num_input, Len(@))),
                                            !.types = SubSeq(@, 1, Min(num_input, Len(@)))])
        index == m1.X[schema.index]
        m2 == IF \E i \in 1..Len(index) : index[i].v >= num_input
              THEN WriteX(m1, schema.index, SelectSeq(index, LAMBDA e : e.v < num_input))
              ELSE m1
        m3 == WriteS(m2, ref, [m2.S[ref] EXCEPT !.out = Empty])
    IN [sc |-> RemoveAll(scope, Keys(schema.out)), m |-> m3]

\* addOutput(schema, name, type, scope)
addOutput(ref, name, type, scope, m) ==
    LET schema == m.S[ref]
        m1 == WriteS(m, ref, [schema EXCEPT !.args = Append(@, name), !.types = Append(@, type)])
        index == m1.X[schema.index]
        m2 == WriteX(m1, schema.index, Put(index, name, Len(index)))
        m3 == WriteS(m2, ref, [m2.S[ref] EXCEPT !.out = Put(@, name, type)])
    IN [sc |-> Scope_add(scope, name, type), m |-> m3]

InsertAt(s, n, x) == SubSeq(s, 1, Min(n, Len(s))) \o <<x>> \o SubSeq(s, Min(n, Len(s)) + 1, Len(s))

\* addInput(schema, name, type, required)
addInput(ref, name, type, required, m) ==
    LET schema == m.S[ref]
        num_input == NumInput(schema)
        m1 == WriteS(m, ref, [schema EXCEPT !.args = InsertAt(@, num_input, name),
                                            !.types = InsertAt(@, num_input, type)])
        index == Put(m1.X[schema.index], name, num_input)
        shifted == [i \in 1..Len(index) |->
                        IF Has(schema.out, index[i].k) THEN Entry(index[i].k, index[i].v + 1)
                        ELSE index[i]]
        m2 == WriteX(m1, schema.index, shifted)
    IN WriteS(m2, ref, IF required THEN [m2.S[ref] EXCEPT !.inReq = Put(@, name, type)]
                       ELSE [m2.S[ref] EXCEPT !.inOpt = Put(@, name, type)])

RECURSIVE AddInputs(_, _, _)
AddInputs(ref, pairs, m) ==
    IF pairs = <<>> THEN m
    ELSE AddInputs(ref, Tail(pairs), addInput(ref, Head(pairs).k, Head(pairs).v, TRUE, m))

\* pushInReq(schema, scope)
pushInReq(ref, scope, m) ==
    IF Scope_hasInReq(scope)
    THEN [sc |-> Scope_clearInReq(scope), m |-> AddInputs(ref, scope.inReq, m)]
    ELSE [sc |-> scope, m |-> m]

\* one rename of updateLambdaArgs: old_name becomes new_name.  An old_name
\* the index lacks makes args[undefined] = new_name, which leaves args alone.
RenameArg(ref, new_name, old_name, types, m) ==
    IF new_name = old_name THEN m
    ELSE LET schema == m.S[ref]
             index == m.X[schema.index]
             known == Has(index, old_name)
             at == IF known THEN Get(index, old_name) + 1 ELSE 0
             m1 == IF known /\ at <= Len(schema.args)
                   THEN WriteS(m, ref, [schema EXCEPT !.args[at] = new_name])
                   ELSE m
             \* index[new_name] = index[old_name]: undefined (-1) when old_name is unknown
             m2 == WriteX(m1, schema.index, Del(Put(index, new_name, at - 1), old_name))
         IN WriteS(m2, ref, [m2.S[ref] EXCEPT
                !.inReq = Del(Put(@, new_name, IF Has(types, new_name) THEN Get(types, new_name) ELSE Undef),
                              old_name),
                !.inOpt = Del(@, old_name)])

RECURSIVE RenameArgs(_, _, _, _, _)
RenameArgs(ref, new_name, old_names, types, m) ==
    IF old_names = <<>> THEN m
    ELSE RenameArgs(ref, new_name, Tail(old_names), types,
                    RenameArg(ref, new_name, Head(old_names), types, m))

RECURSIVE updateLambdaArgsFrom(_, _, _, _)
updateLambdaArgsFrom(ref, lambda_args, types, m) ==
    IF lambda_args = <<>> THEN m
    ELSE updateLambdaArgsFrom(ref, Tail(lambda_args), types,
                              RenameArgs(ref, Head(lambda_args).k, Head(lambda_args).v, types, m))

\* updateLambdaArgs(schema, scope, types)
updateLambdaArgs(ref, scope, types, m) == updateLambdaArgsFrom(ref, scope.lambda_args, types, m)

\* resolveProjection(args, schema, scope)
resolveProjection(args, ref, scope, m) ==
    LET schema == m.S[ref]
        index == m.X[schema.index]
    IN IF \E i \in 1..Len(args) : IndexOf(schema.args, args[i]) = -1
       THEN [sc |-> scope, m |-> Throw(m, "InvalidFieldName")]
       ELSE LET types == [i \in 1..Len(args) |->
                            IF Has(index, args[i]) /\ Get(index, args[i]) < Len(schema.types)
                            THEN schema.types[Get(index, args[i]) + 1] ELSE Undef]
                fresh == Assign(Empty, [i \in 1..Len(args) |-> Entry(args[i], i - 1)])
                dropped == SelectSeq(Keys(schema.out), LAMBDA a : IndexOf(args, a) = -1)
                m1 == [m EXCEPT !.X = Append(@, fresh)]
                m2 == WriteS(m1, ref, [schema EXCEPT !.args = args, !.types = types,
                                                     !.index = Len(m1.X),
                                                     !.out = SelectSeq(@, LAMBDA e : IndexOf(args, e.k) # -1)])
            IN [sc |-> RemoveAll(scope, dropped), m |-> m2]

RECURSIVE CountInto(_, _)
CountInto(res, args) ==
    IF args = <<>> THEN res ELSE CountInto(Put(res, Head(args), Len(res)), Tail(args))

RECURSIVE JoinInputs(_, _, _, _)
\* the two loops of resolveJoin over rhs.inReq / rhs.inOpt: own is [inReq, inOpt]
JoinInputs(own, rhsIn, in_params, required) ==
    IF rhsIn = <<>> THEN own
    ELSE LET p == Head(rhsIn).k
             next == IF Has(in_params, p) THEN [inReq |-> Del(own.inReq, p), inOpt |-> Del(own.inOpt, p)]
                     ELSE IF required THEN [own EXCEPT !.inReq = Put(@, p, Head(rhsIn).v)]
                     ELSE [own EXCEPT !.inOpt = Put(@, p, Head(rhsIn).v)]
         IN JoinInputs(next, Tail(rhsIn), in_params, required)

\* resolveJoin(ast, lhs, rhs): answers m; the join's schema is NewRef of the
\* clone it makes, which the caller stores on the node
resolveJoin(lhsRef, rhsRef, m) ==
    LET m1 == clone(m, lhsRef)
        ref == NewRef(m1)
        m2 == Own(m1, ref)
        rhs == m2.S[rhsRef]
        lhs == m2.S[lhsRef]
        m3 == WriteS(m2, ref, [m2.S[ref] EXCEPT !.args = @ \o rhs.args, !.types = @ \o rhs.types])
        m4 == IF rhs.args = <<>> THEN m3
              ELSE WriteX(m3, lhs.index, CountInto(m3.X[lhs.index], rhs.args))
        in_params == Assign(Assign(Empty, lhs.inReq), lhs.inOpt)
        a == JoinInputs([inReq |-> Assign(Empty, lhs.inReq), inOpt |-> Assign(Empty, lhs.inOpt)],
                        rhs.inReq, in_params, TRUE)
        b == JoinInputs(a, rhs.inOpt, in_params, FALSE)
    IN WriteS(m4, ref, [m4.S[ref] EXCEPT !.index = lhs.index, !.inReq = b.inReq, !.inOpt = b.inOpt,
                                         !.out = Assign(@, rhs.out)])

\* ------------------------------------------------------------------------
\* Primitives: Invocation, Action, External (filter sub-query), VarRef
\* ------------------------------------------------------------------------
Selector(kind) == [kind |-> kind, isBuiltin |-> FALSE]
BuiltinSelector == [kind |-> "builtin", isBuiltin |-> TRUE]
NoFilter == [kind |-> "Null"]

Prim(kind, selector, channel, in_params, filter) ==
    [kind |-> kind, selector |-> selector, channel |-> channel, in_params |-> in_params,
     filter |-> filter, aggregation |-> FALSE, schema |-> 0, effectiveSelector |-> ""]

\* Utils.getSchemaForSelector: the oracle's object for the function, 0 when
\* the oracle rejects the lookup
getSchemaForSelector(kind) ==
    IF \E i \in 1..Len(OracleNames) : OracleNames[i] = kind
    THEN CHOOSE i \in 1..Len(OracleNames) : OracleNames[i] = kind
    ELSE 0

\* Utils.getMemorySchema: no table is stored in memory, the oracle answers null
getMemorySchema(name) == 0

\* ensureSchema(schemas, classes, prim, primType, useMeta), the lookup included
ensureSchema(prim, primType, m) ==
    IF ~Ok(m) \/ prim.schema # 0 THEN [n |-> prim, m |-> m]
    ELSE IF prim.kind = "VarRef" THEN
        IF getMemorySchema(prim.name) = 0 THEN [n |-> prim, m |-> Throw(m, "UnknownMemoryTable")]
        ELSE [n |-> [prim EXCEPT !.schema = getMemorySchema(prim.name)], m |-> m]
    ELSE IF prim.selector.isBuiltin /\ primType = "action" THEN
        IF prim.channel = "notify" THEN [n |-> [prim EXCEPT !.schema = NotifyRef], m |-> m]
        ELSE IF prim.channel = "return" THEN [n |-> [prim EXCEPT !.schema = ReturnRef], m |-> m]
        ELSE IF prim.channel = "save" THEN [n |-> [prim EXCEPT !.schema = SaveRef], m |-> m]
        ELSE [n |-> prim, m |-> Throw(m, "InvalidBuiltinAction")]
    ELSE IF prim.selector.isBuiltin THEN [n |-> prim, m |-> Throw(m, "InvalidBuiltin")]
    ELSE IF getSchemaForSelector(prim.selector.kind) = 0 THEN [n |-> prim, m |-> Throw(m, "UnknownFunction")]
    ELSE [n |-> [prim EXCEPT !.schema = getSchemaForSelector(prim.selector.kind)], m |-> m]

\* schema.inReq[name] || schema.inOpt[name]
InParamType(schema, name) ==
    IF Has(schema.inReq, name) THEN Get(schema.inReq, name)
    ELSE IF Has(schema.inOpt, name) THEN Get(schema.inOpt, name)
    ELSE Undef

\* the loop of typeCheckInputArgs over ast.in_params, from position i
RECURSIVE InParamLoop(_, _, _, _, _)
InParamLoop(ast, i, presentParams, scope, m) ==
    IF i > Len(ast.in_params) \/ ~Ok(m)
    THEN [n |-> ast, sc |-> scope, m |-> m, present |-> presentParams]
    ELSE LET inParam == ast.in_params[i]
             inParamType == InParamType(m.S[ast.schema], inParam.name)
             retag == /\ inParam.value.kind = "Entity" /\ inParam.value.type = "tt:username"
                      /\ inParamType.k = "Entity"
                      /\ inParamType.p \in {"tt:phone_number", "tt:email_address"}
             value == IF retag THEN [inParam.value EXCEPT !.type = "tt:contact_name"] ELSE inParam.value
             ast1 == [ast EXCEPT !.in_params[i].value = value]
             tv == typeForValue(value, scope)
             lambda == value.kind = "VarRef" /\ Scope_isLambdaArg(scope, value.name)
         IN IF inParamType = Undef
            THEN [n |-> ast, sc |-> scope, m |-> Throw(m, "InvalidInputParameter"), present |-> presentParams]
            ELSE IF tv.err # ""
            THEN [n |-> ast1, sc |-> scope, m |-> Throw(m, tv.err), present |-> presentParams]
            ELSE IF ~IsAssignable(tv.type, inParamType, Empty, TRUE).ok
            THEN [n |-> ast1, sc |-> scope, m |-> Throw(m, "InvalidType"), present |-> presentParams]
            ELSE IF inParam.name \in presentParams
            THEN [n |-> ast1, sc |-> scope, m |-> Throw(m, "DuplicateInputParam"), present |-> presentParams]
            ELSE InParamLoop(ast1, i + 1, presentParams \cup {inParam.name},
                             IF lambda THEN Scope_updateLambdaArgs(scope, value.name, inParam.name) ELSE scope,
                             m)

\* a loop that pushes every required input, supplied or not: the variant
\* against which the rule for unsupplied inputs is tested
RECURSIVE PopMissingOrNot(_, _, _)
PopMissingOrNot(scope, inReq, presentParams) ==
    IF inReq = <<>> THEN scope
    ELSE PopMissingOrNot(Scope_popInReq(scope, Head(inReq).k, Head(inReq).v), Tail(inReq), presentParams)

\* for (let inParam in schema.inReq) if (!presentParams.has(inParam)) scope.popInReq(...)
RECURSIVE PopMissing(_, _, _)
PopMissing(scope, inReq, presentParams) ==
    IF inReq = <<>> THEN scope
    ELSE PopMissing(IF Head(inReq).k \in presentParams THEN scope
                    ELSE Scope_popInReq(scope, Head(inReq).k, Head(inReq).v),
                    Tail(inReq), presentParams)

\* typeCheckInputArgs(ast, scope, classes, isDeclaration): [n, sc, m]
\* (classes is empty, so __effectiveSelector is the selector itself)
typeCheckInputArgs(ast, scope, isDeclaration, m) ==
    IF ~Ok(m) THEN [n |-> ast, sc |-> scope, m |-> m]
    ELSE Then(IF isDeclaration THEN pushInReq(ast.schema, scope, m) ELSE [sc |-> scope, m |-> m],
         LAMBDA p :
         Then(InParamLoop(IF ast.kind \notin {"VarRef", "Join", "StreamJoin"}
                          THEN [ast EXCEPT !.effectiveSelector = ast.selector.kind] ELSE ast,
                          1, {}, p.sc, p.m),
         LAMBDA r :
            IF ~Ok(r.m) THEN [n |-> r.n, sc |-> r.sc, m |-> r.m]
            ELSE [n |-> r.n, sc |-> PopMissing(r.sc, r.m.S[ast.schema].inReq, r.present), m |-> r.m]))

\* ------------------------------------------------------------------------
\* Filters.  typeCheckFilter walks the expression once synchronously (atoms
\* are checked, the lookups of the External operands are issued) and the
\* continuation of each issued lookup runs afterwards, whether or not a
\* sibling has failed meanwhile; the first error is the one reported.
\* ------------------------------------------------------------------------
FTrue == [kind |-> "True"]
Atom(name, operator, value) ==
    [kind |-> "Atom", name |-> name, operator |-> operator, value |-> value, overload |-> <<>>]
And(operands) == [kind |-> "And", operands |-> operands]
Or(operands) == [kind |-> "Or", operands |-> operands]
Not(expr) == [kind |-> "Not", expr |-> expr]
External(selector, channel, in_params, filter) == Prim("External", selector, channel, in_params, filter)

\* schema.inReq[name] || schema.inOpt[name] || schema.out[name]
ParamType(schema, name) ==
    IF Has(schema.inReq, name) THEN Get(schema.inReq, name)
    ELSE IF Has(schema.inOpt, name) THEN Get(schema.inOpt, name)
    ELSE IF Has(schema.out, name) THEN Get(schema.out, name)
    ELSE Undef

\* the isAtom branch of typeCheckFilter
typeCheckAtom(ast, ref, scope, m) ==
    LET fromSchema == IF ref # 0 THEN ParamType(m.S[ref], ast.name) ELSE Undef
        type_lhs == IF fromSchema # Undef THEN fromSchema ELSE Scope_get(scope, ast.name)
        tv == typeForValue(ast.value, scope)
        o == resolveFilterOverload(type_lhs, ast.operator, tv.type)
        lambda == ast.value.kind = "VarRef" /\ Scope_isLambdaArg(scope, ast.value.name)
    IN IF type_lhs.k = "FieldConflict" THEN [n |-> ast, sc |-> scope, m |-> Throw(m, "FieldConflict")]
       ELSE IF type_lhs = Undef THEN [n |-> ast, sc |-> scope, m |-> Throw(m, "InvalidFilterParameter")]
       ELSE IF tv.err # "" THEN [n |-> ast, sc |-> scope, m |-> Throw(m, tv.err)]
       ELSE IF o.err # "" THEN [n |-> ast, sc |-> scope, m |-> Throw(m, o.err)]
       ELSE [n |-> [ast EXCEPT !.overload = o.overload],
             sc |-> IF lambda THEN Scope_updateLambdaArgs(scope, ast.value.name, ast.name) ELSE scope,
             m |-> m]

\* the synchronous walk: [n, sc, m, issued], issued counting the External
\* operands whose lookup was started before the walk ended
RECURSIVE FilterSync(_, _, _, _)
RECURSIVE FilterSyncList(_, _, _, _, _, _)
FilterSync(ast, ref, scope, m) ==
    IF ~Ok(m) \/ ast.kind \in {"Null", "True", "False"}
    THEN [n |-> ast, sc |-> scope, m |-> m, issued |-> 0]
    ELSE IF ast.kind \in {"And", "Or"} THEN
        Then(FilterSyncList(ast.operands, 1, ref, scope, m, 0), LAMBDA r :
             [n |-> [ast EXCEPT !.operands = r.ops], sc |-> r.sc, m |-> r.m, issued |-> r.issued])
    ELSE IF ast.kind = "Not" THEN
        Then(FilterSync(ast.expr, ref, scope, m), LAMBDA r :
             [n |-> [ast EXCEPT !.expr = r.n], sc |-> r.sc, m |-> r.m, issued |-> r.issued])
    ELSE IF ast.kind = "Atom" THEN
        Then(typeCheckAtom(ast, ref, scope, m), LAMBDA r :
             [n |-> r.n, sc |-> r.sc, m |-> r.m, issued |-> 0])
    ELSE \* External: ensureSchema starts here; a built-in selector raises at once
        IF ast.schema = 0 /\ ast.selector.isBuiltin
        THEN [n |-> ast, sc |-> scope, m |-> Throw(m, "InvalidBuiltin"), issued |-> 0]
        ELSE [n |-> ast, sc |-> scope, m |-> m, issued |-> 1]

FilterSyncList(ops, i, ref, scope, m, issued) ==
    IF i > Len(ops) \/ ~Ok(m) THEN [ops |-> ops, sc |-> scope, m |-> m, issued |-> issued]
    ELSE Then(FilterSync(ops[i], ref, scope, m), LAMBDA r :
              FilterSyncList([ops EXCEPT ![i] = r.n], i + 1, ref, r.sc, r.m, issued + r.issued))

RECURSIVE typeCheckFilter(_, _, _, _)
RECURSIVE FilterAsync(_, _, _, _, _)
RECURSIVE FilterAsyncList(_, _, _, _, _, _)

\* the continuation of an External operand's lookup
ExternalContinuation(ast, scope, m) ==
    Then(ensureSchema(ast, "query", m), LAMBDA e :
        IF ~Ok(e.m) THEN [n |-> e.n, sc |-> scope, m |-> e.m]
        ELSE Then(typeCheckInputArgs(e.n, scope, FALSE, e.m), LAMBDA a :
            IF ~Ok(a.m) THEN a
            ELSE Then(typeCheckFilter(a.n.filter, a.n.schema, a.sc, a.m), LAMBDA f :
                      [n |-> [a.n EXCEPT !.filter = f.n], sc |-> f.sc, m |-> f.m])))

\* the continuations of the first k issued lookups, in the order issued:
\* [n, sc, m, k] with k the number still to run
FilterAsync(ast, ref, scope, m, k) ==
    IF k = 0 \/ ast.kind \in {"Null", "True", "False", "Atom"}
    THEN [n |-> ast, sc |-> scope, m |-> m, k |-> k]
    ELSE IF ast.kind \in {"And", "Or"} THEN
        Then(FilterAsyncList(ast.operands, 1, ref, scope, m, k), LAMBDA r :
             [n |-> [ast EXCEPT !.operands = r.ops], sc |-> r.sc, m |-> r.m, k |-> r.k])
    ELSE IF ast.kind = "Not" THEN
        Then(FilterAsync(ast.expr, ref, scope, m, k), LAMBDA r :
             [n |-> [ast EXCEPT !.expr = r.n], sc |-> r.sc, m |-> r.m, k |-> r.k])
    ELSE Then(ExternalContinuation(ast, scope, [m EXCEPT !.err = ""]), LAMBDA r :
              [n |-> r.n, sc |-> r.sc,
               m |-> [r.m EXCEPT !.err = IF m.err # "" THEN m.err ELSE r.m.err],
               k |-> k - 1])

FilterAsyncList(ops, i, ref, scope, m, k) ==
    IF i > Len(ops) \/ k = 0 THEN [ops |-> ops, sc |-> scope, m |-> m, k |-> k]
    ELSE Then(FilterAsync(ops[i], ref, scope, m, k), LAMBDA r :
              FilterAsyncList([ops EXCEPT ![i] = r.n], i + 1, ref, r.sc, r.m, r.k))

\* typeCheckFilter(ast, schema, scope, schemas, classes, useMeta): [n, sc, m]
typeCheckFilter(ast, ref, scope, m) ==
    IF ~Ok(m) THEN [n |-> ast, sc |-> scope, m |-> m]
    ELSE Then(FilterSync(ast, ref, scope, m), LAMBDA a :
         Then(FilterAsync(a.n, ref, a.sc, a.m, a.issued), LAMBDA b :
              [n |-> b.n, sc |-> b.sc, m |-> b.m]))

\* ------------------------------------------------------------------------
\* Scalar expressions (Compute)
\* ------------------------------------------------------------------------
Primary(value) == [kind |-> "Primary", value |-> value]
Derived(op, operands) == [kind |-> "Derived", op |-> op, operands |-> operands]

\* resolveScalarExpression(ast, schema, scope, ...): [err, type]
RECURSIVE resolveScalarExpression(_, _, _)
resolveScalarExpression(ast, schema, scope) ==
    IF ast.kind = "Primary" THEN
        IF ast.value.kind = "VarRef" THEN
            LET fromSchema == ParamType(schema, ast.value.name)
                paramType == IF fromSchema # Undef THEN fromSchema ELSE Scope_get(scope, ast.value.name)
            IN IF paramType.k = "FieldConflict" THEN [err |-> "FieldConflict", type |-> Undef]
               ELSE IF paramType = Undef THEN [err |-> "InvalidParameter", type |-> Undef]
               ELSE [err |-> "", type |-> paramType]
        ELSE typeForValue(ast.value, scope)
    ELSE IF ast.kind = "Derived" THEN
        LET l == resolveScalarExpression(ast.operands[1], schema, scope)
            r == resolveScalarExpression(ast.operands[2], schema, scope)
        IN IF l.err # "" THEN l
           ELSE IF r.err # "" THEN r
           ELSE resolveScalarExpressionOps(l.type, ast.op, r.type)
    ELSE [err |-> "InvalidScalarExpression", type |-> Undef]

\* ------------------------------------------------------------------------
\* Table and stream nodes
\* ------------------------------------------------------------------------
Primitive(selector, channel, in_params) == Prim("Primitive", selector, channel, in_params, NoFilter)
Invocation(prim) == [kind |-> "Invocation", invocation |-> prim, schema |-> 0]
VarRef(name, in_params) ==
    [kind |-> "VarRef", name |-> name, in_params |-> in_params, filter |-> NoFilter,
     aggregation |-> FALSE, schema |-> 0]
Filter(table, filter) == [kind |-> "Filter", table |-> table, filter |-> filter, schema |-> 0]
Projection(table, args) == [kind |-> "Projection", table |-> table, args |-> args, schema |-> 0]
Alias(table, name) == [kind |-> "Alias", table |-> table, name |-> name, schema |-> 0]
Aggregation(table, field, operator, alias) ==
    [kind |-> "Aggregation", table |-> table, field |-> field, operator |-> operator,
     alias |-> alias, overload |-> <<>>, schema |-> 0]
Compute(table, expression, alias) ==
    [kind |-> "Compute", table |-> table, expression |-> expression, alias |-> alias, schema |-> 0]
Join(lhs, rhs, in_params) ==
    [kind |-> "Join", lhs |-> lhs, rhs |-> rhs, in_params |-> in_params, filter |-> NoFilter,
     aggregation |-> FALSE, schema |-> 0]

Timer == [kind |-> "Timer", schema |-> 0]
Window(base, delta, stream) ==
    [kind |-> "Window", base |-> base, delta |-> delta, stream |-> stream, schema |-> 0]
TimeSeries(base, delta, stream) ==
    [kind |-> "TimeSeries", base |-> base, delta |-> delta, stream |-> stream, schema |-> 0]
Sequence(base, delta, table) ==
    [kind |-> "Sequence", base |-> base, delta |-> delta, table |-> table, schema |-> 0]
History(base, delta, table) ==
    [kind |-> "History", base |-> base, delta |-> delta, table |-> table, schema |-> 0]
Monitor(table, args) == [kind |-> "Monitor", table |-> table, args |-> args, schema |-> 0]
EdgeNew(stream) == [kind |-> "EdgeNew", stream |-> stream, schema |-> 0]
EdgeFilter(stream, filter) == [kind |-> "EdgeFilter", stream |-> stream, filter |-> filter, schema |-> 0]
StreamFilter(stream, filter) == [kind |-> "StreamFilter", stream |-> stream, filter |-> filter, schema |-> 0]
StreamAlias(stream, name) == [kind |-> "StreamAlias", stream |-> stream, name |-> name, schema |-> 0]
StreamProjection(stream, args) == [kind |-> "StreamProjection", stream |-> stream, args |-> args, schema |-> 0]
StreamJoin(stream, table, in_params) ==
    [kind |-> "StreamJoin", stream |-> stream, table |-> table, in_params |-> in_params,
     filter |-> NoFilter, aggregation |-> FALSE, schema |-> 0]

\* ast.schema = <ref>.clone(): the node, holding the clone, and the heap
SetClone(ast, ref, m) ==
    Then(clone(m, ref), LAMBDA m1 :
         [n |-> [ast EXCEPT !.schema = NewRef(m1)], m |-> Own(m1, NewRef(m1))])

\* cleanOutput(ast.schema, scope); addOutput(ast.schema, name, type, scope)
ReplaceOutputs(ast, name, type, scope, m) ==
    Then(cleanOutput(ast.schema, scope, m), LAMBDA c :
    Then(addOutput(ast.schema, name, type, c.sc, c.m), LAMBDA a :
         [n |-> ast, sc |-> a.sc, m |-> a.m]))

\* typeCheckAggregation(ast, scope): [n, sc, m]
typeCheckAggregation(ast, scope, m) ==
    IF ~Ok(m) THEN [n |-> ast, sc |-> scope, m |-> m]
    ELSE IF ast.field = "*" THEN
        IF ast.operator # "count" THEN [n |-> ast, sc |-> scope, m |-> Throw(m, "InvalidAggregation")]
        ELSE ReplaceOutputs([ast EXCEPT !.overload = <<TAny, TNumber>>],
                            IF ast.alias # "" THEN ast.alias ELSE "count", TNumber, scope, m)
    ELSE Then(resolveAggregationOverload(ast.operator, ast.field, m.S[ast.schema]), LAMBDA o :
         IF o.err # "" THEN [n |-> ast, sc |-> scope, m |-> Throw(m, o.err)]
         ELSE ReplaceOutputs([ast EXCEPT !.overload = o.overload],
                             IF ast.alias # "" THEN ast.alias ELSE ast.operator,
                             o.overload[2], scope, m))

\* typeCheckComputation(ast, scope, ...): [n, sc, m]
typeCheckComputation(ast, scope, m) ==
    IF ~Ok(m) THEN [n |-> ast, sc |-> scope, m |-> m]
    ELSE Then(resolveScalarExpression(ast.expression, m.S[ast.table.schema], scope), LAMBDA t :
         IF t.err # "" THEN [n |-> ast, sc |-> scope, m |-> Throw(m, t.err)]
         ELSE ReplaceOutputs(ast, IF ast.alias # "" THEN ast.alias ELSE "result", t.type, scope, m))

\* typeCheckMonitor(ast): the heap, with the error if one is raised
typeCheckMonitor(ast, m) ==
    IF Ok(m) /\ \E i \in 1..Len(ast.args) : ~Has(m.S[ast.schema].out, ast.args[i])
    THEN Throw(m, "InvalidFieldName") ELSE m

\* the tail of typeCheckInput and typeCheckJoinInput: an aggregation the
\* primitive carries is checked on the primitive itself, which has no field
\* of its own to aggregate; otherwise the outputs are published
PublishOutputs(ast, scope, m) ==
    IF ~Ok(m) THEN [n |-> ast, sc |-> scope, m |-> m]
    ELSE IF ast.aggregation THEN [n |-> ast, sc |-> scope, m |-> Throw(m, "InvalidAggregationField")]
    ELSE Then(Scope_assign(scope, m.S[ast.schema].out, m), LAMBDA r :
              [n |-> ast, sc |-> r.sc, m |-> r.m])

\* typeCheckInputArgs, then typeCheckFilter(ast.filter, ast.schema, ...), then
\* the outputs: what typeCheckInput and typeCheckJoinInput share
InputArgsFilterOutputs(ast, scope, isDeclaration, m) ==
    Then(typeCheckInputArgs(ast, scope, isDeclaration, m), LAMBDA a :
        IF ~Ok(a.m) THEN a
        ELSE Then(typeCheckFilter(a.n.filter, a.n.schema, a.sc, a.m), LAMBDA f :
                  PublishOutputs([a.n EXCEPT !.filter = f.n], f.sc, f.m)))

\* typeCheckInput(ast, schemas, scope, classes, useMeta, isDeclaration)
typeCheckInput(ast, scope, isDeclaration, m) ==
    Then(ensureSchema(ast, "query", m), LAMBDA e :
        IF ~Ok(e.m) THEN [n |-> e.n, sc |-> scope, m |-> e.m]
        ELSE InputArgsFilterOutputs(e.n, scope, isDeclaration, e.m))

\* typeCheckOutput(ast, schemas, scope, classes, useMeta, isDeclaration)
typeCheckOutput(ast, scope, isDeclaration, m) ==
    Then(ensureSchema(ast, "action", m), LAMBDA e :
        IF ~Ok(e.m) THEN [n |-> e.n, sc |-> scope, m |-> e.m]
        ELSE typeCheckInputArgs(e.n, scope, isDeclaration, e.m))

\* typeCheckJoinInput(ast, schemas, scope, classes, useMeta)
typeCheckJoinInput(ast, scope, m) == InputArgsFilterOutputs(ast, scope, FALSE, m)

RECURSIVE RemoveJoinInReq(_, _)
\* for (let inParam of ast.in_params) rightscope.removeInReq(inParam.name, ...)
RemoveJoinInReq(rightscope, in_params) ==
    IF in_params = <<>> THEN rightscope
    ELSE RemoveJoinInReq(Scope_removeInReq(rightscope, Head(in_params).name), Tail(in_params))

\* let rightscope = new Scope(scope), as the check of the right side finds
\* it: made before the left side was checked, its arrays of renames are the
\* ones the left side's scope has written to meanwhile
rightscope(scope, leftscope) == SharingLambdaArgs(Scope_copy(scope), leftscope)

\* the Join case once both sides are checked: l and r are their results
JoinSides(ast, l, r, scope) ==
    Then(typeCheckJoinInput([ast EXCEPT !.schema = Len(r.m.S) + 1],
                            SharingLambdaArgs([l.sc EXCEPT !.has_event = TRUE], r.sc),
                            resolveJoin(l.n.schema, r.n.schema, r.m)),
    LAMBDA j :
       IF ~Ok(j.m) THEN [n |-> j.n, sc |-> SharingLambdaArgs(scope, j.sc), m |-> j.m]
       ELSE [n |-> j.n,
             sc |-> Scope_merge(Scope_merge(SharingLambdaArgs(scope, j.sc), j.sc),
                                RemoveJoinInReq(r.sc, ast.in_params)),
             m |-> j.m])

\* the two sides of a join, checked left then right, each in its own copy
\* of the scope; l and r are the results of the two checks
JoinChecked(ast, l, r, scope) ==
    IF ~Ok(r.m) THEN [n |-> ast, sc |-> SharingLambdaArgs(scope, r.sc), m |-> r.m]
    ELSE JoinSides(ast, l, r, scope)

\* what follows the check of the inner table or stream t of the node ast,
\* held now in ast1: the clone, then the case of the node
Composed(ast, ast1, t) ==
    IF ~Ok(t.m) THEN [n |-> ast1, sc |-> t.sc, m |-> t.m]
    ELSE Then(SetClone(ast1, t.n.schema, t.m), LAMBDA c :
         CASE ast.kind \in {"Filter", "EdgeFilter", "StreamFilter"} ->
                Then(typeCheckFilter(ast.filter, c.n.schema, t.sc, c.m), LAMBDA f :
                     [n |-> [c.n EXCEPT !.filter = f.n], sc |-> f.sc, m |-> f.m])
           [] ast.kind \in {"Projection", "StreamProjection"} ->
                Then(resolveProjection(ast.args, c.n.schema, t.sc, c.m), LAMBDA p :
                     [n |-> c.n, sc |-> p.sc, m |-> p.m])
           [] ast.kind \in {"Alias", "StreamAlias"} ->
                Then(Scope_addGlobal(t.sc, ast.name, c.n.schema, c.m), LAMBDA g :
                     IF ~Ok(g.m) THEN [n |-> c.n, sc |-> g.sc, m |-> g.m]
                     ELSE [n |-> c.n, sc |-> Scope_prefix(g.sc, ast.name), m |-> g.m])
           [] ast.kind = "Aggregation" -> typeCheckAggregation(c.n, t.sc, c.m)
           [] ast.kind = "Compute" -> typeCheckComputation(c.n, t.sc, c.m)
           [] ast.kind = "Monitor" -> [n |-> c.n, sc |-> t.sc, m |-> typeCheckMonitor(c.n, c.m)]
           [] ast.kind \in {"EdgeNew", "Window", "TimeSeries", "Sequence", "History"} ->
                [n |-> c.n, sc |-> t.sc, m |-> c.m])

\* the isVarRef case, the same in typeCheckTable and typeCheckStream
VarRefChecked(ast, scope, isDeclaration, m) ==
    Then(IF Scope_hasGlobal(scope, ast.name) THEN SetClone(ast, Scope_getSchema(scope, ast.name), m)
         ELSE [n |-> ast, m |-> Own(m, 0)],
    LAMBDA g : typeCheckInput(g.n, scope, isDeclaration, g.m))

\* the tests on base and delta of a Window or Sequence (counted) and of a
\* TimeSeries or History (timed): the error raised, "" when there is none.
\* The || of the source leaves delta unread when base fails the test.
RangeError(ast, scope) ==
    LET base == typeForValue(ast.base, scope)
        delta == typeForValue(ast.delta, scope)
        counted == ast.kind \in {"Window", "Sequence"}
    IN IF base.err # "" THEN base.err
       ELSE IF counted /\ base.type.k # "Number" THEN "InvalidRange"
       ELSE IF ~counted /\ base.type.k # "Date" THEN "InvalidTimeRange"
       ELSE IF delta.err # "" THEN delta.err
       ELSE IF counted /\ delta.type.k # "Number" THEN "InvalidRange"
       ELSE IF ~counted /\ (delta.type.k # "Measure" \/ delta.type.p # "ms") THEN "InvalidTimeRange"
       ELSE ""

RECURSIVE typeCheckTable(_, _, _, _)
RECURSIVE typeCheckStream(_, _, _, _)

\* typeCheckTable(ast, schemas, scope, classes, useMeta, isDeclaration): [n, sc, m]
typeCheckTable(ast, scope, isDeclaration, m) ==
    IF ~Ok(m) THEN [n |-> ast, sc |-> scope, m |-> m]
    ELSE IF ast.kind = "VarRef" THEN VarRefChecked(ast, scope, isDeclaration, m)
    ELSE IF ast.kind = "Invocation" THEN
        Then(ensureSchema(ast.invocation, "query", m), LAMBDA e :
            IF ~Ok(e.m) THEN [n |-> [ast EXCEPT !.invocation = e.n], sc |-> scope, m |-> e.m]
            ELSE Then(SetClone(ast, e.n.schema, e.m), LAMBDA c :
                 Then(typeCheckInput(e.n, scope, isDeclaration, c.m), LAMBDA i :
                      [n |-> [c.n EXCEPT !.invocation = i.n], sc |-> i.sc, m |-> i.m])))
    ELSE IF ast.kind = "Join" THEN
        Then(typeCheckTable(ast.lhs, Scope_copy(scope), isDeclaration, m), LAMBDA l :
        Then(typeCheckTable(ast.rhs, rightscope(scope, l.sc), isDeclaration, l.m), LAMBDA r :
             JoinChecked([ast EXCEPT !.lhs = l.n, !.rhs = r.n], l, r, scope)))
    ELSE IF ast.kind \in {"Filter", "Projection", "Alias", "Aggregation", "Compute"} THEN
        Then(typeCheckTable(ast.table, scope, isDeclaration, m), LAMBDA t :
             Composed(ast, [ast EXCEPT !.table = t.n], t))
    ELSE IF ast.kind \in {"Window", "TimeSeries", "Sequence", "History"} THEN
        IF RangeError(ast, scope) # "" THEN [n |-> ast, sc |-> scope, m |-> Throw(m, RangeError(ast, scope))]
        ELSE IF ast.kind \in {"Window", "TimeSeries"} THEN
            Then(typeCheckStream(ast.stream, scope, isDeclaration, m), LAMBDA t :
                 Composed(ast, [ast EXCEPT !.stream = t.n], t))
        \* a Sequence or History hands its table to typeCheckStream
        ELSE Then(typeCheckStream(ast.table, scope, isDeclaration, m), LAMBDA t :
                  Composed(ast, [ast EXCEPT !.table = t.n], t))
    ELSE [n |-> ast, sc |-> scope, m |-> Throw(m, "NotImplemented")]

\* typeCheckStream(ast, schemas, scope, classes, useMeta, isDeclaration): [n, sc, m]
typeCheckStream(ast, scope, isDeclaration, m) ==
    IF ~Ok(m) THEN [n |-> ast, sc |-> scope, m |-> m]
    ELSE IF ast.kind = "VarRef" THEN VarRefChecked(ast, scope, isDeclaration, m)
    ELSE IF ast.kind \in {"Timer", "AtTimer"} THEN
        [n |-> [ast EXCEPT !.schema = EmptyFunctionRef], sc |-> scope, m |-> Own(m, 0)]
    ELSE IF ast.kind = "Monitor" THEN
        Then(typeCheckTable(ast.table, scope, isDeclaration, m), LAMBDA t :
             Composed(ast, [ast EXCEPT !.table = t.n], t))
    ELSE IF ast.kind = "StreamJoin" THEN
        Then(typeCheckStream(ast.stream, Scope_copy(scope), isDeclaration, m), LAMBDA l :
        Then(typeCheckTable(ast.table, rightscope(scope, l.sc), isDeclaration, l.m), LAMBDA r :
             JoinChecked([ast EXCEPT !.stream = l.n, !.table = r.n], l, r, scope)))
    ELSE IF ast.kind \in {"EdgeNew", "EdgeFilter", "StreamFilter", "StreamAlias", "StreamProjection"} THEN
        Then(typeCheckStream(ast.stream, scope, isDeclaration, m), LAMBDA t :
             Composed(ast, [ast EXCEPT !.stream = t.n], t))
    \* a table node that answers isFilter, isProjection, isAlias or isJoin has
    \* no stream field: the recursive call reads a property of undefined
    ELSE IF ast.kind \in {"Filter", "Projection", "Alias", "Join"} THEN
        [n |-> ast, sc |-> scope, m |-> Throw(m, "UndefinedStream")]
    ELSE [n |-> ast, sc |-> scope, m |-> Throw(m, "NotImplemented")]

\* ------------------------------------------------------------------------
\* Declarations and rules
\* ------------------------------------------------------------------------
Declaration(name, type, args, value) == [name |-> name, type |-> type, args |-> args, value |-> value]

\* Rule(stream, actions) has isRule; Command(table, actions) may have no table
NoSource == [kind |-> "Null", schema |-> 0]
Rule(stream, actions) == [isRule |-> TRUE, stream |-> stream, table |-> NoSource, actions |-> actions]
Command(table, actions) == [isRule |-> FALSE, stream |-> NoSource, table |-> table, actions |-> actions]

Action(selector, channel, in_params) == Prim("Action", selector, channel, in_params, NoFilter)

\* what follows the check of a declaration's value, v its result:
\* let schema = ast.value.schema.clone(); updateLambdaArgs(schema, scope, ast.args);
\* scope.clean(ast.args); scope.addGlobal(ast.name, schema)
Declared(ast, v) ==
    IF ~Ok(v.m) THEN [n |-> [ast EXCEPT !.value = v.n], sc |-> v.sc, m |-> v.m]
    ELSE Then(clone(v.m, v.n.schema), LAMBDA c :
         Then(Scope_addGlobal(Scope_clean(v.sc, Args(Keys(ast.args))), ast.name, NewRef(c),
                              updateLambdaArgs(NewRef(c), v.sc, ast.args, Own(c, NewRef(c)))),
         LAMBDA g : [n |-> [ast EXCEPT !.value = v.n], sc |-> g.sc, m |-> g.m]))

\* typeCheckDeclaration(ast, schemas, scope, classes, useMeta): [n, sc, m]
typeCheckDeclaration(ast, scope, m) ==
    IF ast.type \notin {"stream", "table", "action"}
    THEN [n |-> ast, sc |-> scope, m |-> Throw(m, "InvalidDeclarationType")]
    ELSE Then(Scope_initLambdaArgs(scope, ast.args, m), LAMBDA i :
         Declared(ast, CASE ast.type = "stream" -> typeCheckStream(ast.value, i.sc, TRUE, i.m)
                         [] ast.type = "table" -> typeCheckTable(ast.value, i.sc, TRUE, i.m)
                         [] ast.type = "action" -> typeCheckOutput(ast.value, i.sc, TRUE, i.m)))

RECURSIVE MissingParams(_, _, _)
\* the names addRequiredInputParams appends, in the order of prim.schema.inReq
MissingParams(inReq, present, scope) ==
    IF inReq = <<>> THEN <<>>
    ELSE (IF Head(inReq).k \notin present /\ Has(scope.inReq, Head(inReq).k)
          THEN <<InputParam(Head(inReq).k, VUndefined)>> ELSE <<>>)
         \o MissingParams(Tail(inReq), present, scope)

\* addRequiredInputParams(prim, scope): the primitive with the slots appended
addRequiredInputParams(prim, scope, m) ==
    [prim EXCEPT !.in_params =
        @ \o MissingParams(m.S[prim.schema].inReq, {prim.in_params[i].name : i \in 1..Len(prim.in_params)}, scope)]

\* for (let [,prim] of ast.iteratePrimitives()) addRequiredInputParams(prim, scope):
\* the invocations and the External operands of the subtree, not the VarRefs
RECURSIVE RequireInFilter(_, _, _)
RequireInPrim(prim, scope, m) ==
    [addRequiredInputParams(prim, scope, m) EXCEPT !.filter = RequireInFilter(prim.filter, scope, m)]

RequireInFilter(f, scope, m) ==
    IF f.kind \in {"And", "Or"}
    THEN [f EXCEPT !.operands = [i \in 1..Len(f.operands) |-> RequireInFilter(f.operands[i], scope, m)]]
    ELSE IF f.kind = "Not" THEN [f EXCEPT !.expr = RequireInFilter(f.expr, scope, m)]
    ELSE IF f.kind = "External" THEN RequireInPrim(f, scope, m)
    ELSE f

RECURSIVE RequireIn(_, _, _)
RequireIn(ast, scope, m) ==
    CASE ast.kind = "Invocation" -> [ast EXCEPT !.invocation = RequireInPrim(ast.invocation, scope, m)]
      [] ast.kind = "Join" -> [ast EXCEPT !.lhs = RequireIn(ast.lhs, scope, m), !.rhs = RequireIn(ast.rhs, scope, m)]
      [] ast.kind = "StreamJoin" ->
            [ast EXCEPT !.stream = RequireIn(ast.stream, scope, m), !.table = RequireIn(ast.table, scope, m)]
      [] ast.kind = "Filter" ->
            [ast EXCEPT !.table = RequireIn(ast.table, scope, m), !.filter = RequireInFilter(ast.filter, scope, m)]
      [] ast.kind \in {"EdgeFilter", "StreamFilter"} ->
            [ast EXCEPT !.stream = RequireIn(ast.stream, scope, m), !.filter = RequireInFilter(ast.filter, scope, m)]
      [] ast.kind \in {"Projection", "Alias", "Aggregation", "Compute", "Monitor"} ->
            [ast EXCEPT !.table = RequireIn(ast.table, scope, m)]
      [] ast.kind \in {"EdgeNew", "StreamAlias", "StreamProjection", "Window", "TimeSeries"} ->
            [ast EXCEPT !.stream = RequireIn(ast.stream, scope, m)]
      [] ast.kind \in {"Sequence", "History"} ->
            [ast EXCEPT !.table = RequireIn(ast.table, scope, m)]
      [] OTHER -> ast

HasSource(n) == n.kind # "Null"

\* a typeCheckRule without the test for a built-in action that has nothing
\* to return: the variant against which that test is tested
SourceCheckedWithoutGetTest(ast, ast1, scope1, t) ==
    IF ~Ok(t.m) THEN [n |-> ast1, sc |-> t.sc, m |-> t.m]
    ELSE [n |-> IF ast.isRule THEN [ast1 EXCEPT !.stream = RequireIn(@, scope1, t.m)]
                ELSE IF HasSource(ast.table) THEN [ast1 EXCEPT !.table = RequireIn(@, scope1, t.m)]
                ELSE ast1,
          sc |-> scope1,
          m |-> t.m]

\* a test that asks every action to be built-in: the variant against which
\* the refusal of rules with other actions besides is tested
ReturnsWithoutGetWhenAllBuiltin(ast) ==
    /\ \A i \in 1..Len(ast.actions) : ast.actions[i].selector.isBuiltin
    /\ ~HasSource(ast.stream) /\ ~HasSource(ast.table)

\* ast.actions.some((a) => a.selector.isBuiltin) && !ast.stream && !ast.table
ReturnsWithoutGet(ast) ==
    /\ \E i \in 1..Len(ast.actions) : ast.actions[i].selector.isBuiltin
    /\ ~HasSource(ast.stream) /\ ~HasSource(ast.table)

\* what follows the check of a rule's stream or table, t its result and ast1
\* the rule holding the checked source: has_event, the Undefined slots of
\* the source's primitives, the test for a built-in action without a source
SourceChecked(ast, ast1, scope1, t) ==
    IF ~Ok(t.m) THEN [n |-> ast1, sc |-> t.sc, m |-> t.m]
    ELSE [n |-> IF ast.isRule THEN [ast1 EXCEPT !.stream = RequireIn(@, scope1, t.m)]
                ELSE IF HasSource(ast.table) THEN [ast1 EXCEPT !.table = RequireIn(@, scope1, t.m)]
                ELSE ast1,
          sc |-> scope1,
          m |-> IF ReturnsWithoutGet(ast) THEN Throw(t.m, "NoGetFunction") ELSE t.m]

\* typeCheckRule up to its Promise.all: [n, sc, m]
typeCheckRuleSource(ast, scope, m) ==
    IF HasSource(ast.table)
    THEN Then(typeCheckTable(ast.table, scope, FALSE, m), LAMBDA t :
              SourceChecked(ast, [ast EXCEPT !.table = t.n], [t.sc EXCEPT !.has_event = TRUE], t))
    ELSE IF HasSource(ast.stream)
    THEN Then(typeCheckStream(ast.stream, scope, FALSE, m), LAMBDA t :
              SourceChecked(ast, [ast EXCEPT !.stream = t.n], [t.sc EXCEPT !.has_event = TRUE], t))
    ELSE SourceChecked(ast, ast, scope, [n |-> NoSource, sc |-> scope, m |-> m])

\* ------------------------------------------------------------------------
\* The nodes of an AST, in traversal order: table and stream nodes, the
\* primitives they hold, External operands and the atoms of their filters
\* ------------------------------------------------------------------------
RECURSIVE FilterNodes(_)
RECURSIVE OperandNodes(_, _)
OperandNodes(ops, i) ==
    IF i > Len(ops) THEN <<>> ELSE FilterNodes(ops[i]) \o OperandNodes(ops, i + 1)

FilterNodes(f) ==
    IF f.kind \in {"And", "Or"} THEN OperandNodes(f.operands, 1)
    ELSE IF f.kind = "Not" THEN FilterNodes(f.expr)
    ELSE IF f.kind = "External" THEN <<f>> \o FilterNodes(f.filter)
    ELSE IF f.kind = "Atom" THEN <<f>>
    ELSE <<>>

PrimNodes(prim) == <<prim>> \o FilterNodes(prim.filter)

RECURSIVE TableNodes(_)
TableNodes(n) ==
    CASE n.kind = "Invocation" -> <<n>> \o PrimNodes(n.invocation)
      [] n.kind = "VarRef" -> <<n>> \o FilterNodes(n.filter)
      [] n.kind = "Join" -> <<n>> \o TableNodes(n.lhs) \o TableNodes(n.rhs)
      [] n.kind = "StreamJoin" -> <<n>> \o TableNodes(n.stream) \o TableNodes(n.table)
      [] n.kind = "Filter" -> <<n>> \o TableNodes(n.table) \o FilterNodes(n.filter)
      [] n.kind \in {"EdgeFilter", "StreamFilter"} -> <<n>> \o TableNodes(n.stream) \o FilterNodes(n.filter)
      [] n.kind \in {"Projection", "Alias", "Aggregation", "Compute", "Monitor"} -> <<n>> \o TableNodes(n.table)
      [] n.kind \in {"EdgeNew", "StreamAlias", "StreamProjection"} -> <<n>> \o TableNodes(n.stream)
      [] n.kind \in {"Window", "TimeSeries"} -> <<n>> \o TableNodes(n.stream)
      [] n.kind \in {"Sequence", "History"} -> <<n>> \o TableNodes(n.table)
      [] n.kind \in {"Timer", "AtTimer"} -> <<n>>
      [] OTHER -> <<>>

RECURSIVE ActionNodes(_, _)
ActionNodes(actions, i) ==
    IF i > Len(actions) THEN <<>> ELSE PrimNodes(actions[i]) \o ActionNodes(actions, i + 1)

RuleNodes(rule) == TableNodes(rule.stream) \o TableNodes(rule.table) \o ActionNodes(rule.actions, 1)

DeclarationNodes(decl) ==
    IF decl.type = "action" THEN PrimNodes(decl.value) ELSE TableNodes(decl.value)

RECURSIVE ProgramNodesFrom(_, _, _)
ProgramNodesFrom(prog, d, r) ==
    IF d <= Len(prog.declarations)
    THEN DeclarationNodes(prog.declarations[d]) \o ProgramNodesFrom(prog, d + 1, r)
    ELSE IF r <= Len(prog.rules) THEN RuleNodes(prog.rules[r]) \o ProgramNodesFrom(prog, d, r + 1)
    ELSE <<>>

ProgramNodes(prog) == ProgramNodesFrom(prog, 1, 1)

TableKinds ==
    {"Invocation", "VarRef", "Join", "Filter", "Projection", "Alias", "Aggregation", "Compute",
     "StreamJoin", "EdgeFilter", "StreamFilter", "Monitor", "EdgeNew", "StreamAlias",
     "StreamProjection", "Timer", "AtTimer", "Window", "TimeSeries", "Sequence", "History"}

PrimKinds == {"Primitive", "Action", "External"}

\* ------------------------------------------------------------------------
\* The programs checked.  Tables are built from the leaves by at most
\* MaxDepth operators; lists of declarations, rules and actions hold at
\* most MaxLen elements; typeCheckProgram runs at most MaxRuns times.
\* ------------------------------------------------------------------------
MaxDepth == 2
MaxLen == 2
MaxRuns == 2

SeqsUpTo(S, n) == UNION {[1..k -> S] : k \in 0..n}

Here == VVarRef("$context.location.current_location")
PassTemperature == <<InputParam("temperature", VVarRef("temperature"))>>

Weather(in_params) == Invocation(Primitive(Selector("weather"), "current", in_params))
Advice(in_params) == Invocation(Primitive(Selector("advice"), "get", in_params))
WeatherHere == Weather(<<InputParam("location", Here)>>)

GoodLeaves == {Weather(<<>>), WeatherHere, Advice(<<>>)}
Leaves ==
    GoodLeaves \cup {Weather(<<InputParam("bogus", VNumber)>>),
                     Invocation(Primitive(Selector("nowhere"), "get", <<>>))}

Hot == Atom("temperature", ">=", VMeasure("C"))
AdvisedHot ==
    And(<<Hot, External(Selector("advice"), "get", PassTemperature, Atom("text", "=~", VString))>>)
Filters == {Hot, AdvisedHot, Not(Atom("status", "=~", VString)), Atom("bogus", "=", VNumber)}

ProjectionArgs == {<<"temperature">>, <<"status", "temperature">>, <<"location">>, <<"bogus">>}

AggregationArgs ==
    {<<"temperature", "max", "">>, <<"temperature", "avg", "t">>, <<"status", "max", "">>,
     <<"*", "count", "">>, <<"*", "count", "n">>, <<"*", "max", "">>, <<"text", "count", "">>}

Warmer == Derived("+", <<Primary(VVarRef("temperature")), Primary(VMeasure("C"))>>)
Computations == {<<Warmer, "">>, <<Warmer, "warmer">>, <<Primary(VVarRef("bogus")), "">>}

JoinPartners == {Advice(<<>>), WeatherHere}
JoinParams == {<<>>, PassTemperature}

\* every operator applied to the table t
Operators(t) ==
    {Filter(t, f) : f \in Filters}
    \cup {Projection(t, a) : a \in ProjectionArgs}
    \cup {Aggregation(t, a[1], a[2], a[3]) : a \in AggregationArgs}
    \cup {Compute(t, c[1], c[2]) : c \in Computations}
    \cup {Alias(t, "w")}
    \cup {Join(t, r, p) : r \in JoinPartners, p \in JoinParams}

\* the operators that can succeed, applied below the outermost one
InnerOperators(t) ==
    {Filter(t, Hot), Projection(t, <<"temperature">>), Aggregation(t, "temperature", "max", ""),
     Alias(t, "w"), Join(t, Advice(<<>>), PassTemperature)}

RECURSIVE Inner(_)
Inner(d) == IF d = 0 THEN GoodLeaves ELSE Inner(d - 1) \cup UNION {InnerOperators(t) : t \in Inner(d - 1)}

Tables == Leaves \cup UNION {Operators(t) : t \in Inner(MaxDepth - 1)}

\* joins whose sides publish the name text with different types
AverageAsText == Aggregation(WeatherHere, "temperature", "avg", "text")
CollidingJoins ==
    {Join(AverageAsText, Advice(<<>>), <<>>), Join(Advice(<<>>), AverageAsText, <<>>),
     Join(Advice(<<>>), AverageAsText, <<InputParam("bogus", VNumber)>>)}

Watch == Monitor(WeatherHere, <<>>)
Streams ==
    {Timer, Watch, Monitor(WeatherHere, <<"status">>), Monitor(WeatherHere, <<"bogus">>),
     EdgeNew(Watch), EdgeFilter(Watch, Hot), StreamFilter(Watch, AdvisedHot),
     StreamAlias(Watch, "w"), StreamProjection(Watch, <<"status">>),
     StreamJoin(Timer, WeatherHere, <<>>), StreamJoin(Timer, Advice(<<>>), <<>>),
     StreamJoin(Watch, Advice(<<>>), PassTemperature), StreamJoin(Watch, Advice(<<>>), <<>>)}

\* filters over a table with an Entity output
Profile == Invocation(Primitive(Selector("profile"), "get", <<>>))
ProfileFilters ==
    {Atom("user", "=~", VString), Atom("user", "=~", VEntity("tt:username")), Atom("user", "=~", VNumber),
     Atom("user", "=", VEntity("tt:username")), Atom("name", "=", VString)}

Notify == Action(BuiltinSelector, "notify", <<>>)
Post(in_params) == Action(Selector("post"), "post", in_params)
Send(in_params) == Action(Selector("send"), "send", in_params)
Actions ==
    {Notify, Action(BuiltinSelector, "bogus", <<>>),
     Post(<<InputParam("status", VVarRef("status"))>>), Post(<<>>),
     Post(<<InputParam("status", VString), InputParam("status", VString)>>),
     Send(<<InputParam("to", VEntity("tt:username"))>>),
     Send(<<InputParam("to", VEntity("tt:phone_number")), InputParam("text", VEvent(""))>>),
     Send(<<InputParam("to", VEntity("tt:phone_number")), InputParam("text", VEvent("program_id"))>>)}

NoPrincipal == [kind |-> "Null", name |-> "", type |-> ""]
Program(principal, declarations, rules) ==
    [principal |-> principal, declarations |-> declarations, rules |-> rules]

Declarations ==
    {Declaration("q", "table", Empty, WeatherHere),
     Declaration("s", "stream", Empty, Watch),
     Declaration("a", "action", <<Entry("p", TString)>>, Post(<<InputParam("status", VVarRef("p"))>>)),
     Declaration("bad", "query", Empty, WeatherHere)}

\* declarations of joins over a lambda argument
WeatherAt(p) == Weather(<<InputParam("location", VVarRef(p))>>)
JoinDeclarations ==
    {Declaration("j", "table", <<Entry("p", TLocation)>>, Join(WeatherAt("p"), Advice(<<>>), <<>>)),
     Declaration("j", "table", <<Entry("p", TLocation)>>,
                 Join(WeatherAt("p"), Advice(<<InputParam("bogus", VNumber)>>), <<>>)),
     Declaration("j", "table", <<Entry("p", TLocation)>>,
                 Join(WeatherAt("p"), Advice(<<>>), <<InputParam("bogus", VNumber)>>)),
     Declaration("j", "table", <<Entry("p", TLocation)>>, Join(WeatherAt("p"), Advice(PassTemperature), <<>>)),
     Declaration("j", "table", <<Entry("p", TMeasure("C"))>>,
                 Join(WeatherHere, Advice(<<InputParam("temperature", VVarRef("p"))>>), <<>>)),
     Declaration("j", "stream", <<Entry("p", TLocation)>>,
                 StreamJoin(Monitor(WeatherAt("p"), <<>>), Advice(<<>>), <<>>))}

\* declarations whose lambda argument is bound in a filter, in an input
\* parameter, or carries the name of the declaration before it
LambdaDeclarations ==
    {Declaration("f", "table", <<Entry("p", TMeasure("C"))>>,
                 Filter(WeatherHere, Atom("temperature", ">=", VVarRef("p")))),
     Declaration("l", "table", <<Entry("p", TLocation)>>, WeatherAt("p")),
     Declaration("r", "action", <<Entry("q", TString)>>, Post(<<InputParam("status", VVarRef("q"))>>)),
     Declaration("r", "action", <<Entry("status", TString)>>, Post(<<InputParam("status", VVarRef("status"))>>))}

\* windows over a stream and sequences over a table, counted and timed
Ranges ==
    {<<VNumber, VNumber>>, <<VDate, VMeasure("ms")>>, <<VDate, VMeasure("C")>>, <<VString, VNumber>>,
     <<VNumber, VDate>>}
Ranged ==
    UNION {{Window(r[1], r[2], Watch), TimeSeries(r[1], r[2], Watch),
            Sequence(r[1], r[2], WeatherHere), History(r[1], r[2], WeatherHere)} : r \in Ranges}
    \cup {Window(VNumber, VNumber, Monitor(WeatherHere, <<"bogus">>)),
          Sequence(VNumber, VNumber, Filter(WeatherHere, Hot)),
          Sequence(VNumber, VNumber, Weather(<<InputParam("bogus", VNumber)>>)),
          History(VDate, VMeasure("ms"), Aggregation(WeatherHere, "temperature", "max", ""))}
RangedOverDeclared ==
    {Sequence(VNumber, VNumber, VarRef("q", <<>>)), History(VDate, VMeasure("ms"), VarRef("q", <<>>)),
     Sequence(VDate, VNumber, VarRef("q", <<>>))}

\* rules whose source is an alias at the top, and one that has none
AliasRules ==
    {Command(Alias(WeatherHere, "w"), <<Notify>>), Rule(StreamAlias(Watch, "w"), <<Notify>>),
     Command(Alias(Advice(<<>>), "v"), <<Notify>>), Command(WeatherHere, <<Notify>>)}

\* second rules, checked after a rule with a table
SecondRules ==
    {Command(NoSource, <<Post(<<InputParam("status", VString)>>)>>),
     Command(NoSource, <<Send(<<InputParam("to", VEntity("tt:phone_number")), InputParam("text", VEvent(""))>>)>>),
     Command(Filter(WeatherHere, Atom("status", "=", VEvent(""))), <<Notify>>),
     Rule(Watch, <<Send(<<InputParam("to", VEntity("tt:phone_number")), InputParam("text", VEvent(""))>>)>>)}

DeclaredRules ==
    {Command(VarRef("q", <<>>), <<Notify>>),
     Rule(VarRef("s", <<>>), <<Post(<<InputParam("status", VVarRef("status"))>>)>>),
     Command(WeatherHere, <<Post(<<InputParam("bogus", VString)>>)>>)}

Programs ==
    {Program(NoPrincipal, <<>>, <<Command(t, <<Notify>>)>>) : t \in Tables}
    \cup {Program(NoPrincipal, <<>>, <<Rule(s, <<Notify>>)>>) : s \in Streams}
    \cup {Program(NoPrincipal, <<>>, <<Command(t, <<Notify>>)>>) : t \in CollidingJoins}
    \cup {Program(NoPrincipal, <<>>, <<Command(Filter(Profile, f), <<Notify>>)>>) : f \in ProfileFilters}
    \cup {Program(NoPrincipal, <<>>, <<Command(WeatherHere, a)>>) : a \in SeqsUpTo(Actions, MaxLen)}
    \cup {Program(NoPrincipal, <<>>, <<Rule(Timer, a)>>) : a \in SeqsUpTo(Actions, MaxLen)}
    \cup {Program(NoPrincipal, <<>>, <<Command(NoSource, a)>>) : a \in SeqsUpTo(Actions, MaxLen)}
    \cup {Program(VEntity(t), <<>>, <<Command(WeatherHere, <<Notify>>)>>) :
              t \in {"tt:contact", "tt:username", "tt:email_address"}}
    \cup {Program(NoPrincipal, <<d>>, <<Command(VarRef("j", <<>>), <<Notify>>)>>) : d \in JoinDeclarations}
    \cup {Program(NoPrincipal, <<>>, <<Command(WeatherHere, <<Notify>>), r>>) : r \in SecondRules}
    \cup {Program(NoPrincipal, <<>>, <<Command(t, <<Notify>>)>>) : t \in Ranged}
    \cup {Program(NoPrincipal, d, <<r1, r2>>) :
              d \in {<<>>, <<Declaration("q", "table", Empty, WeatherHere)>>},
              r1 \in AliasRules, r2 \in AliasRules}
    \cup {Program(NoPrincipal, <<Declaration("q", "table", Empty, WeatherHere)>>, <<Command(t, <<Notify>>)>>) :
              t \in RangedOverDeclared}
    \cup {Program(NoPrincipal, <<Declaration("q", "table", Empty, WeatherHere), d>>,
                   <<Command(VarRef("q", <<>>), <<Notify>>)>>) : d \in LambdaDeclarations}
    \cup {Program(NoPrincipal, d, r) : d \in SeqsUpTo(Declarations, MaxLen),
                                       r \in SeqsUpTo(DeclaredRules, MaxLen)}

\* ------------------------------------------------------------------------
\* typeCheckProgram as a state machine.  Every step is one handler of its
\* promise chain; the oracle lookups of a rule's actions are the only
\* handlers that can complete in more than one order.
\* ------------------------------------------------------------------------
VARIABLES
    ast,        \* the program, rewritten in place
    m,          \* the heap of schema objects, the error raised, the write history
    scope,      \* the Scope of the run
    pc,         \* "principal", "declLoop", "ruleLoop", "actions", "await", "done", "failed"
    di,         \* declLoop's i, from 1
    ri,         \* ruleLoop's i, from 1
    pending,    \* the actions of rule ri whose typeCheckOutput has yet to continue
    immediate,  \* those of them whose schema was at hand when they were started
    run,        \* the number of the typeCheckProgram call
    log,        \* history: what was started and completed in this run, in order
    pre,        \* history: rule ri and the scope as typeCheckRule received them
    first       \* history: the annotations the first successful run left

vars == <<ast, m, scope, pc, di, ri, pending, immediate, run, log, pre, first>>

Event(ev, i, a) == [ev |-> ev, i |-> i, a |-> a]

\* history: the actions, scope and heap as ast.actions.map(...) left them
NoIssue == [actions |-> <<>>, scope |-> Scope_new, m |-> InitM, pending |-> {}, immediate |-> {}]

NoSnapshot == [rule |-> Command(NoSource, <<>>), scope |-> Scope_new, issued |-> NoIssue]

\* the contents of a schema object, maps compared by their entries
SchemaView(heap, ref) ==
    IF ref = 0 THEN [null |-> TRUE]
    ELSE [args |-> heap.S[ref].args, types |-> heap.S[ref].types,
          index |-> Range(heap.X[heap.S[ref].index]),
          inReq |-> Range(heap.S[ref].inReq), inOpt |-> Range(heap.S[ref].inOpt),
          out |-> Range(heap.S[ref].out)]

\* what a run leaves on a node: schema contents, in_params, overload
NodeView(heap, n) ==
    IF n.kind = "Atom" THEN [kind |-> n.kind, overload |-> n.overload]
    ELSE [kind |-> n.kind, schema |-> SchemaView(heap, n.schema),
          in_params |-> IF n.kind \in PrimKinds \cup {"VarRef", "Join", "StreamJoin"}
                        THEN n.in_params ELSE <<>>,
          overload |-> IF n.kind = "Aggregation" THEN n.overload ELSE <<>>]

ProgramView(heap, prog) ==
    LET nodes == ProgramNodes(prog) IN [i \in 1..Len(nodes) |-> NodeView(heap, nodes[i])]

Init ==
    /\ ast \in Programs
    /\ m = InitM
    /\ scope = Scope_new
    /\ pc = "principal"
    /\ di = 1
    /\ ri = 1
    /\ pending = {}
    /\ immediate = {}
    /\ run = 1
    /\ log = <<>>
    /\ pre = NoSnapshot
    /\ first = <<>>

\* a loop test that gives up after the first element: the variant against
\* which the ordering property is tested
AtEndAfterFirst(i, list) == i >= 2 \/ i = Len(list) + 1

\* i === list.length, with i counted from 1
AtEnd(i, list) == i = Len(list) + 1

\* const scope = new Scope(); if (ast.principal !== null) typecheckPrincipal(ast.principal)
Principal ==
    /\ pc = "principal"
    /\ LET e == IF ast.principal.kind = "Null" THEN "" ELSE typecheckPrincipal(ast.principal)
       IN /\ m' = Throw(m, e)
          /\ pc' = IF e = "" THEN "declLoop" ELSE "failed"
          /\ log' = log \o <<Event("principal", 0, 0)>>
                        \o (IF e = "" THEN <<>> ELSE <<Event("fail", 0, 0)>>)
    /\ scope' = Scope_new
    /\ UNCHANGED <<ast, di, ri, pending, immediate, run, pre, first>>

\* declLoop(i): scope.clean(); typeCheckDeclaration(ast.declarations[i], ...)
declLoop ==
    /\ pc = "declLoop"
    /\ IF AtEnd(di, ast.declarations)
       THEN /\ pc' = "ruleLoop"
            /\ UNCHANGED <<ast, m, scope, di, log>>
       ELSE \E r \in {typeCheckDeclaration(ast.declarations[di], Scope_clean(scope, NoArgs), m)} :
               /\ ast' = [ast EXCEPT !.declarations[di] = r.n]
               /\ m' = r.m
               /\ scope' = r.sc
               /\ pc' = IF Ok(r.m) THEN "declLoop" ELSE "failed"
               /\ di' = IF Ok(r.m) THEN di + 1 ELSE di
               /\ log' = log \o <<Event("declStart", di, 0),
                                  IF Ok(r.m) THEN Event("declEnd", di, 0) ELSE Event("fail", di, 0)>>
    /\ UNCHANGED <<ri, pending, immediate, run, pre, first>>

\* ruleLoop(i): scope.clean(); typeCheckRule(ast.rules[i], ...) up to its Promise.all
ruleLoop ==
    /\ pc = "ruleLoop"
    /\ IF AtEnd(ri, ast.rules)
       THEN /\ pc' = "done"
            /\ first' = IF run = 1 THEN ProgramView(m, ast) ELSE first
            /\ UNCHANGED <<ast, m, scope, log, pre>>
       ELSE \E r \in {typeCheckRuleSource(ast.rules[ri], Scope_clean(scope, NoArgs), m)} :
               /\ ast' = [ast EXCEPT !.rules[ri] = r.n]
               /\ m' = r.m
               /\ scope' = r.sc
               /\ pc' = IF Ok(r.m) THEN "actions" ELSE "failed"
               /\ pre' = [rule |-> ast.rules[ri], scope |-> Scope_clean(scope, NoArgs), issued |-> NoIssue]
               /\ log' = log \o <<Event("sourceStart", ri, 0),
                                  IF Ok(r.m) THEN Event("sourceEnd", ri, 0) ELSE Event("fail", ri, 0)>>
               /\ first' = first
    /\ UNCHANGED <<di, ri, pending, immediate, run>>

\* the synchronous part of ensureSchema for an action: TRUE when it raises
RaisesAtOnce(prim) ==
    prim.schema = 0 /\ prim.selector.isBuiltin /\ prim.channel \notin {"notify", "return", "save"}

\* the actions ast.actions.map(...) reaches: all of them, or those up to the
\* first whose ensureSchema raises at once
Started(actions) ==
    {a \in 1..Len(actions) : \A b \in 1..(a - 1) : ~RaisesAtOnce(actions[b])}

\* ast.actions.map((action) => typeCheckOutput(action, ...)): each call runs
\* ensureSchema up to its lookup, and continues in a later handler
mapActions ==
    /\ pc = "actions"
    /\ LET actions == ast.rules[ri].actions
           started == Started(actions)
           raised == \E a \in started : RaisesAtOnce(actions[a])
           sync(a) == IF a \in started /\ ~RaisesAtOnce(actions[a]) /\ actions[a].selector.isBuiltin
                      THEN ensureSchema(actions[a], "action", m).n ELSE actions[a]
           issued == [a \in 1..Len(actions) |-> sync(a)]
       IN /\ ast' = [ast EXCEPT !.rules[ri].actions = issued]
          /\ pending' = {a \in started : ~RaisesAtOnce(actions[a])}
          /\ immediate' = {a \in started : issued[a].schema # 0}
          /\ m' = IF raised THEN Throw(m, "InvalidBuiltinAction") ELSE m
          /\ pc' = IF raised THEN "failed" ELSE "await"
          /\ log' = log \o [k \in 1..Cardinality(started) |-> Event("actionStart", ri, k)]
                        \o (IF raised THEN <<Event("fail", ri, 0)>> ELSE <<>>)
          /\ pre' = [pre EXCEPT !.issued =
                         [actions |-> issued, scope |-> scope, m |-> m',
                          pending |-> {a \in started : ~RaisesAtOnce(actions[a])},
                          immediate |-> {a \in started : issued[a].schema # 0}]]
    /\ UNCHANGED <<scope, di, ri, run, first>>

\* the handlers run in the order their promises settle: those that never
\* waited first, in source order, then the lookups in the oracle's order
MayContinue(a) ==
    /\ a \in pending
    /\ IF a \in immediate THEN \A b \in pending \cap immediate : a <= b
       ELSE pending \cap immediate = {}

\* the continuation of typeCheckOutput for action a: the lookup's result is
\* stored, then typeCheckInputArgs.  It runs even when a sibling has failed.
actionContinuation(a) ==
    /\ pc \in {"await", "failed"}
    /\ MayContinue(a)
    /\ \E r \in {typeCheckOutput(ast.rules[ri].actions[a], scope, FALSE, [m EXCEPT !.err = ""])} :
          /\ ast' = [ast EXCEPT !.rules[ri].actions[a] = r.n]
          /\ scope' = r.sc
          /\ m' = [r.m EXCEPT !.err = IF Ok(m) THEN r.m.err ELSE m.err]
          /\ pc' = IF Ok(m) /\ Ok(r.m) THEN "await" ELSE "failed"
          /\ log' = log \o <<Event("actionEnd", ri, a)>>
                        \o (IF Ok(m) /\ ~Ok(r.m) THEN <<Event("fail", ri, a)>> ELSE <<>>)
    /\ pending' = pending \ {a}
    /\ immediate' = immediate \ {a}
    /\ UNCHANGED <<di, ri, run, pre, first>>

\* for (let prim of ast.actions) addRequiredInputParams(prim, scope)
ruleEnd ==
    /\ pc = "await"
    /\ pending = {}
    /\ ast' = [ast EXCEPT !.rules[ri].actions =
                   [a \in 1..Len(@) |-> addRequiredInputParams(@[a], scope, m)]]
    /\ ri' = ri + 1
    /\ pc' = "ruleLoop"
    /\ log' = log \o <<Event("ruleEnd", ri, 0)>>
    /\ UNCHANGED <<m, scope, di, pending, immediate, run, pre, first>>

\* typeCheckProgram is called again on the AST the last call left
rerun ==
    /\ pc = "done"
    /\ run < MaxRuns
    /\ run' = run + 1
    /\ pc' = "principal"
    /\ di' = 1
    /\ ri' = 1
    /\ log' = <<>>
    /\ pre' = NoSnapshot
    /\ m' = [m EXCEPT !.own = 0]
    /\ UNCHANGED <<ast, scope, pending, immediate, first>>

Next ==
    \/ Principal
    \/ declLoop
    \/ ruleLoop
    \/ mapActions
    \/ \E a \in pending : actionContinuation(a)
    \/ ruleEnd
    \/ rerun

Spec == Init /\ [][Next]_vars

\* ------------------------------------------------------------------------
\* Properties.  A run has succeeded in the states where pc = "done"; the
\* nodes are then the nodes a successful check has produced.
\* ------------------------------------------------------------------------
Nodes == ProgramNodes(ast)

TableNodesChecked == {i \in 1..Len(Nodes) : Nodes[i].kind \in TableKinds}

SchemaNodesChecked == {i \in 1..Len(Nodes) : Nodes[i].kind \in TableKinds \cup PrimKinds}

SchemaOf(n) == m.S[n.schema]

Inputs(schema) == KeySet(schema.inReq) \cup KeySet(schema.inOpt)

Partitioned(schema) ==
    /\ KeySet(schema.inReq) \cap KeySet(schema.inOpt) = {}
    /\ Inputs(schema) \cap KeySet(schema.out) = {}
    /\ Inputs(schema) \cup KeySet(schema.out) = Range(schema.args)
    /\ \A i, j \in 1..Len(schema.args) :
          schema.args[i] \in Inputs(schema) /\ schema.args[j] \in KeySet(schema.out) => i < j

\* C1: after a successful check, the schema of every table and stream node
\* has inReq, inOpt and out pairwise disjoint, their names are exactly the
\* names in args, and every input precedes every output in args.
C1_SchemaPartition ==
    pc = "done" => \A i \in TableNodesChecked : Partitioned(SchemaOf(Nodes[i]))

Bijective(schema, index) ==
    /\ \A i \in 1..Len(schema.args) : Has(index, schema.args[i]) /\ Get(index, schema.args[i]) = i - 1
    /\ KeySet(index) \subseteq Range(schema.args)

\* C2: after a successful check, the index of every table and stream node's
\* schema maps each name of args to its position and holds no other key.
C2_IndexBijection ==
    pc = "done" =>
        \A i \in TableNodesChecked : Bijective(SchemaOf(Nodes[i]), m.X[SchemaOf(Nodes[i]).index])

\* C3: after a successful Projection (of a table or of a stream), the keys of
\* the node's schema.out are exactly the projected names.
C3_ProjectionOutputs ==
    pc = "done" =>
        \A i \in TableNodesChecked :
            Nodes[i].kind \in {"Projection", "StreamProjection"} =>
                KeySet(SchemaOf(Nodes[i]).out) = Range(Nodes[i].args)

\* the one output an Aggregation node is to have: its name and its type
AggregateName(n) ==
    IF n.alias # "" THEN n.alias ELSE IF n.field = "*" THEN "count" ELSE n.operator

AggregateType(n) ==
    IF n.field = "*" \/ n.operator = "count" THEN TNumber ELSE Get(SchemaOf(n.table).out, n.field)

\* C4: after a successful Aggregation, the node's schema.out has exactly one
\* entry, keyed by the alias, else by "count" for count(*), else by the
\* operator, and typed Number for a count and as the aggregated field
\* otherwise; no output of the inner table remains.
C4_AggregationOutput ==
    pc = "done" =>
        \A i \in TableNodesChecked :
            Nodes[i].kind = "Aggregation" =>
                SchemaOf(Nodes[i]).out = <<Entry(AggregateName(Nodes[i]), AggregateType(Nodes[i]))>>

\* an aliased average over a table with several outputs, and a count(*), have been checked
C4_Witness ==
    /\ pc = "done"
    /\ \E i \in TableNodesChecked :
          /\ Nodes[i].kind = "Aggregation" /\ Nodes[i].operator = "avg" /\ Nodes[i].alias = "t"
          /\ Len(SchemaOf(Nodes[i].table).out) >= 2
          /\ SchemaOf(Nodes[i]).out = <<Entry("t", TMeasure("C"))>>

JoinLeft(n) == IF n.kind = "Join" THEN n.lhs ELSE n.stream

JoinRight(n) == IF n.kind = "Join" THEN n.rhs ELSE n.table

\* C5: after a successful Join (of tables, or of a stream and a table), the
\* inputs of the node's schema are the inputs of the left side and of the
\* right side, less the names the join's in_params bind.
C5_JoinInputs ==
    pc = "done" =>
        \A i \in TableNodesChecked :
            Nodes[i].kind \in {"Join", "StreamJoin"} =>
                Inputs(SchemaOf(Nodes[i])) =
                    (Inputs(SchemaOf(JoinLeft(Nodes[i]))) \cup Inputs(SchemaOf(JoinRight(Nodes[i]))))
                        \ {Nodes[i].in_params[k].name : k \in 1..Len(Nodes[i].in_params)}

\* C6: after a successful typeCheckProgram, every primitive and every table
\* and stream node holds a schema, no two nodes hold the same object, and
\* none holds an object of the oracle or a built-in constant.
C6_FreshClones ==
    pc = "done" =>
        \A i \in SchemaNodesChecked :
            /\ Nodes[i].schema # 0
            /\ Nodes[i].schema \notin SharedRefs
            /\ \A j \in SchemaNodesChecked : j # i => Nodes[j].schema # Nodes[i].schema

\* C7: a check writes only the clone of the node being checked: no object
\* of the oracle, no built-in constant and no other node's schema or index
\* is ever changed.
C7_OnlyOwnClone ==
    /\ m.foreign = {}
    /\ \A ref \in SharedRefs : m.S[ref] = InitS[ref] /\ m.X[ref] = InitX[ref]

\* C8: a second typeCheckProgram on the AST a successful run left succeeds
\* too, and leaves every node's schema contents, in_params and overload as
\* the first run left them.
C8_Idempotence ==
    run > 1 => /\ pc # "failed"
               /\ pc = "done" => ProgramView(m, ast) = first

RuleFailed == pc = "failed" /\ \E k \in 1..Len(log) : log[k].ev = "sourceStart"

\* C9: when typeCheckRule fails, the rule (its schema pointers, in_params,
\* entity tags) and the Scope are as typeCheckRule received them.
C9_NoPartialRewrite ==
    RuleFailed => ast.rules[ri] = pre.rule /\ scope = pre.scope

Earlier(k, e) == \E j \in 1..(k - 1) : log[j] = e

\* C10: in one typeCheckProgram the principal is validated first, a
\* declaration starts only when those before it have completed, a rule only
\* when every declaration and the rules before it have completed, an action
\* only when its rule's stream or table has been checked, and nothing is
\* started after a failure.
C10_Ordering ==
    \A k \in 1..Len(log) :
        /\ (log[k].ev = "principal") = (k = 1)
        /\ log[k].ev = "declStart" =>
              \A i \in 1..(log[k].i - 1) : Earlier(k, Event("declEnd", i, 0))
        /\ log[k].ev = "sourceStart" =>
              /\ \A i \in 1..Len(ast.declarations) : Earlier(k, Event("declEnd", i, 0))
              /\ \A r \in 1..(log[k].i - 1) : Earlier(k, Event("ruleEnd", r, 0))
        /\ log[k].ev = "actionStart" => Earlier(k, Event("sourceEnd", log[k].i, 0))
        /\ log[k].ev \in {"declStart", "sourceStart", "actionStart"} =>
              \A j \in 1..(k - 1) : log[j].ev # "fail"

\* two declarations and two rules with their actions have been checked, in a run with a principal step
C10_Witness ==
    /\ pc = "done"
    /\ Len(ast.declarations) = 2
    /\ Len(ast.rules) = 2
    /\ \E k \in 1..Len(log) : log[k] = Event("actionStart", 2, 1)

\* C11: once a step of a check has failed, the check changes neither the
\* AST nor the Scope any more: the sibling actions whose lookups are still
\* pending attach no schema and push nothing into scope.inReq.
C11_AbortOnError ==
    [][pc = "failed" => ast' = ast /\ scope' = scope]_vars

EventNames == {"", "title", "program_id"}

\* the action binds one of its inputs to an $event value other than program_id
BindsEvent(prim) ==
    \E i \in 1..Len(prim.in_params) :
        prim.in_params[i].value.kind = "Event" /\ prim.in_params[i].value.name # "program_id"

Sourceless(rule) == ~HasSource(rule.table) /\ ~HasSource(rule.stream)

Logged(e) == \E k \in 1..Len(log) : log[k] = e

\* C12: typeForValue raises for an Event value other than program_id while
\* the scope has no event and answers the value's type otherwise; so the
\* check of a rule without stream and table fails once an action that binds
\* an input to $event has been checked.
C12_EventNeedsHasEvent ==
    /\ \A name \in EventNames :
          IF name = "program_id" \/ scope.has_event
          THEN typeForValue(VEvent(name), scope) = [err |-> "", type |-> getType(VEvent(name))]
          ELSE typeForValue(VEvent(name), scope).err = "VariableNotInScope"
    /\ ri <= Len(ast.rules) /\ Sourceless(ast.rules[ri]) =>
          \A a \in 1..Len(ast.rules[ri].actions) :
              BindsEvent(ast.rules[ri].actions[a]) /\ Logged(Event("actionEnd", ri, a)) => pc = "failed"

\* an action binding $event has been checked in a rule without stream and table, and was refused
C12_Witness ==
    /\ pc = "failed" /\ m.err = "VariableNotInScope"
    /\ ri <= Len(ast.rules) /\ Sourceless(ast.rules[ri])
    /\ \E a \in 1..Len(ast.rules[ri].actions) :
          BindsEvent(ast.rules[ri].actions[a]) /\ Logged(Event("actionEnd", ri, a))

\* typeCheckRule has received a rule without stream and table whose only
\* action is the built-in notify
OnlyNotify ==
    /\ pre # NoSnapshot
    /\ Sourceless(pre.rule)
    /\ Len(pre.rule.actions) = 1
    /\ pre.rule.actions[1].selector.isBuiltin /\ pre.rule.actions[1].channel = "notify"

\* C13: a rule without stream and table whose only action is the built-in
\* notify fails typeCheckRule with NoGetFunction.
C13_NoGetFunction ==
    OnlyNotify => pc = "failed" /\ m.err = "NoGetFunction"

\* such a rule has been given to typeCheckRule and was refused
C13_Witness ==
    OnlyNotify /\ pc = "failed" /\ Logged(Event("sourceStart", 1, 0))

EntityKinds == {"tt:username", "tt:phone_number", "tt:email_address"}

OperandTypes ==
    {TString, TNumber, TBoolean, TDate, TLocation, TAny, TMeasure("C")} \cup {TEntity(e) : e \in EntityKinds}

\* an atom that applies =~ to the Entity output of profile
EntityLike(n) == n.kind = "Atom" /\ n.operator = "=~" /\ n.name = "user"

\* C14: for an Entity left-hand side and any right-hand side, the overload
\* of =~ is refused with InvalidParameterTypes; an atom that applies =~ to
\* an Entity parameter gets no overload and its check fails with that error.
C14_LikeOnEntity ==
    /\ \A e \in EntityKinds : \A t \in OperandTypes :
          resolveFilterOverload(TEntity(e), "=~", t) = [err |-> "InvalidParameterTypes", overload |-> <<>>]
    /\ \A i \in 1..Len(Nodes) :
          EntityLike(Nodes[i]) =>
              /\ Nodes[i].overload = <<>>
              /\ Logged(Event("sourceStart", 1, 0)) => pc = "failed" /\ m.err = "InvalidParameterTypes"

\* a filter applying =~ to an Entity output has been checked and refused
C14_Witness ==
    /\ pc = "failed" /\ m.err = "InvalidParameterTypes"
    /\ Logged(Event("sourceStart", 1, 0))
    /\ \E i \in 1..Len(Nodes) : EntityLike(Nodes[i]) /\ Nodes[i].value.kind = "Entity"

\* the table or stream of a rule
SourceOf(rule) == IF HasSource(rule.table) THEN rule.table ELSE rule.stream

\* the rule's source is an alias and its check has just completed
AliasChecked ==
    /\ pc = "actions"
    /\ SourceOf(ast.rules[ri]).kind \in {"Alias", "StreamAlias"}

\* C15: after the Alias case (addGlobal(name, schema), then prefix(name)),
\* for every output x of the alias's schema, get('name.x') is the type in
\* schema.out[x], and x unqualified is no longer a local.
C15_AliasRoundTrip ==
    AliasChecked =>
        LET n == SourceOf(ast.rules[ri])
            out == SchemaOf(n).out
        IN /\ Scope_hasGlobal(scope, n.name)
           /\ \A i \in 1..Len(out) :
                 /\ Scope_get(scope, n.name \o "." \o out[i].k) = out[i].v
                 /\ ~Scope_has(scope, out[i].k)

\* an alias of a table with two outputs or more has been checked
C15_Witness ==
    /\ AliasChecked
    /\ Len(SchemaOf(SourceOf(ast.rules[ri])).out) >= 2
    /\ Scope_has(scope, "w.temperature")

\* the check of a table or stream node by the function that takes it
CheckSource(n, sc, isDeclaration, heap) ==
    IF n.kind \in {"Join", "Invocation", "Filter", "Projection", "Alias", "Aggregation", "Compute"}
    THEN typeCheckTable(n, sc, isDeclaration, heap)
    ELSE typeCheckStream(n, sc, isDeclaration, heap)

\* a Join is the next node to be checked: as the value of declaration di,
\* or as the source of rule ri.  JoinCall is the call about to be made.
JoinNext ==
    \/ /\ pc = "declLoop" /\ di <= Len(ast.declarations)
       /\ ast.declarations[di].type \in {"table", "stream"}
       /\ ast.declarations[di].value.kind \in {"Join", "StreamJoin"}
    \/ /\ pc = "ruleLoop" /\ ri <= Len(ast.rules)
       /\ SourceOf(ast.rules[ri]).kind \in {"Join", "StreamJoin"}

JoinCall ==
    IF pc = "declLoop"
    THEN LET i == Scope_initLambdaArgs(Scope_clean(scope, NoArgs), ast.declarations[di].args, m)
         IN [n |-> ast.declarations[di].value, sc |-> i.sc, m |-> i.m, isDeclaration |-> TRUE]
    ELSE [n |-> SourceOf(ast.rules[ri]), sc |-> Scope_clean(scope, NoArgs), m |-> m, isDeclaration |-> FALSE]

\* the names an input parameter of the primitive binds by reference
Referenced(prim) ==
    {prim.in_params[k].value.name : k \in {k \in 1..Len(prim.in_params) : prim.in_params[k].value.kind = "VarRef"}}

\* C17: the right side of a Join is checked in a clone of the caller's scope
\* as it was before the left side was checked (no local, global, inReq
\* entry or lambda rename of the left side in it), a reference in the right
\* side to an output of the left side is rejected as not in scope, and what
\* the child scopes record does not change the caller's maps: a failed
\* join leaves the caller's scope as it was, a successful one leaves the
\* caller's renames as they were.
C17_IndependentSides ==
    JoinNext =>
        \A c \in {JoinCall} :
        \A l \in {CheckSource(JoinLeft(c.n), Scope_copy(c.sc), c.isDeclaration, c.m)} :
        \A j \in {CheckSource(c.n, c.sc, c.isDeclaration, c.m)} :
            /\ rightscope(c.sc, l.sc) = Scope_copy(c.sc)
            /\ j.sc.lambda_args = c.sc.lambda_args
            /\ ~Ok(j.m) => j.sc = c.sc
            /\ /\ Ok(l.m)
               /\ JoinRight(c.n).kind = "Invocation"
               /\ \E x \in Referenced(JoinRight(c.n).invocation) :
                     Has(l.m.S[l.n.schema].out, x) /\ Scope_get(c.sc, x) = Undef
               => j.m.err = "VariableNotInScope"

\* the names both sides of a checked join publish as outputs
PublishedByBoth(heap, n) ==
    KeySet(heap.S[JoinLeft(n).schema].out) \cap KeySet(heap.S[JoinRight(n).schema].out)

\* C16: a Join changes the caller's scope only once the left side, the
\* right side and the join's in_params have all been checked: a join that
\* fails at any of the three leaves the caller's scope as it was.  The
\* merge is then of the left side first and the right side second: a name
\* both sides publish ends in the caller's scope with the right side's type.
C16_JoinMerge ==
    JoinNext =>
        \A c \in {JoinCall} :
        \A j \in {CheckSource(c.n, c.sc, c.isDeclaration, c.m)} :
            IF ~Ok(j.m) THEN j.sc = c.sc
            ELSE \A x \in PublishedByBoth(j.m, j.n) :
                    Scope_get(j.sc, x) = Get(j.m.S[JoinRight(j.n).schema].out, x)

\* the check of rule ri's stream or table has completed
SourceDone == Logged(Event("sourceEnd", ri, 0))

\* C18: $has_event over the check of a rule.  It is false in the scope
\* typeCheckRule receives, whatever the rules before left; it is false in
\* the scope the check of the rule's stream or table returns; once that
\* check has completed, and while the actions are checked, it is true
\* exactly when the rule has a stream or a table; when the rule's source
\* fails it is still false.
C18_HasEventLifecycle ==
    /\ pre # NoSnapshot => ~pre.scope.has_event
    /\ pc = "ruleLoop" /\ ri <= Len(ast.rules) /\ ~Sourceless(ast.rules[ri]) =>
          \A t \in {CheckSource(SourceOf(ast.rules[ri]), Scope_clean(scope, NoArgs), FALSE, m)} :
              ~t.sc.has_event
    /\ pc \in {"actions", "await"} \/ (pc = "failed" /\ ri <= Len(ast.rules) /\ SourceDone) =>
          scope.has_event = ~Sourceless(ast.rules[ri])
    /\ pc = "failed" /\ Logged(Event("sourceStart", ri, 0)) /\ ~SourceDone => ~scope.has_event

\* the second rule has neither stream nor table, the first had a table:
\* the second rule's actions have been checked with the flag false
C18_Witness ==
    /\ ri = 2 /\ pc = "await" /\ pending = {}
    /\ Sourceless(ast.rules[2]) /\ ~Sourceless(ast.rules[1])
    /\ ~scope.has_event

\* C19: after self.merge(other), every global of other is a global of self,
\* bound to the same schema, and every local of other is a local of self
\* with the same type.  self is the scope a Join was called with, other the
\* left side's scope as its check left it.
C19_MergeKeepsGlobals ==
    JoinNext =>
        \A c \in {JoinCall} :
        \A l \in {CheckSource(JoinLeft(c.n), Scope_copy(c.sc), c.isDeclaration, c.m)} :
            Ok(l.m) =>
                \A s \in {Scope_merge(c.sc, l.sc)} :
                    /\ \A g \in KeySet(l.sc.globalScope) :
                          Scope_hasGlobal(s, g) /\ Scope_getSchema(s, g) = Scope_getSchema(l.sc, g)
                    /\ \A x \in KeySet(l.sc.scope) :
                          Scope_has(s, x) /\ Get(s.scope, x) = Get(l.sc.scope, x)

\* the names the input parameters of a primitive supply
Supplied(prim) == {prim.in_params[k].name : k \in 1..Len(prim.in_params)}

\* scope.inReq before and after typeCheckInputArgs on a primitive with
\* schema S: the unsupplied required inputs of S are there with S's types,
\* every other name is as it was
InReqAsClaimed(before, after, S, prim) ==
    LET unsupplied == KeySet(S.inReq) \ Supplied(prim)
    IN /\ \A n \in unsupplied : Has(after, n) /\ Get(after, n) = Get(S.inReq, n)
       /\ \A n \in (KeySet(before) \cup KeySet(after) \cup Supplied(prim)) \ unsupplied :
             /\ Has(after, n) = Has(before, n)
             /\ Has(before, n) => Get(after, n) = Get(before, n)
       /\ unsupplied = {} /\ before = Empty => after = Empty

\* the step is the continuation of an action's typeCheckOutput, and it succeeded
ActionChecked ==
    /\ pc = "await" /\ pc' = "await"
    /\ Len(log') = Len(log) + 1
    /\ log'[Len(log')].ev = "actionEnd"

\* C20: after a successful typeCheckInputArgs on a primitive with schema S
\* and input parameters P, scope.inReq maps every required input of S that
\* P does not name to its type in S, and is unchanged at every other name;
\* with every required input supplied and scope.inReq empty before, it is
\* empty afterwards.  The calls are those of a rule's actions and of the
\* value of an action declaration.
C20_UnsuppliedInputs ==
    /\ [][ActionChecked =>
             LET prim == ast'.rules[ri].actions[log'[Len(log')].a]
             IN InReqAsClaimed(scope.inReq, scope'.inReq, m'.S[prim.schema], prim)]_vars
    /\ [](pc = "declLoop" /\ di <= Len(ast.declarations) /\ ast.declarations[di].type = "action" =>
            \A i \in {Scope_initLambdaArgs(Scope_clean(scope, NoArgs), ast.declarations[di].args, m)} :
            \A r \in {typeCheckOutput(ast.declarations[di].value, i.sc, TRUE, i.m)} :
                Ok(r.m) => InReqAsClaimed(i.sc.inReq, r.sc.inReq, r.m.S[r.n.schema], r.n))

\* both actions of a rule have been checked: one left its required input
\* unsupplied, the other supplied the same input
C20_Witness ==
    /\ pc = "await" /\ pending = {} /\ Len(ast.rules[ri].actions) = 2
    /\ \E a, b \in 1..2 :
          /\ ast.rules[ri].actions[a].channel = "post" /\ Supplied(ast.rules[ri].actions[a]) = {}
          /\ ast.rules[ri].actions[b].channel = "post" /\ Supplied(ast.rules[ri].actions[b]) = {"status"}
    /\ scope.inReq = <<Entry("status", TString)>>

\* the primitives iteratePrimitives reaches below a table or stream node,
\* each with the names the enclosing joins pass to it: [prim, passed]
RECURSIVE PrimsOfFilter(_)
RECURSIVE PrimsOfOperands(_, _)
PrimsOfOperands(ops, i) ==
    IF i > Len(ops) THEN <<>> ELSE PrimsOfFilter(ops[i]) \o PrimsOfOperands(ops, i + 1)

PrimsOfFilter(f) ==
    IF f.kind \in {"And", "Or"} THEN PrimsOfOperands(f.operands, 1)
    ELSE IF f.kind = "Not" THEN PrimsOfFilter(f.expr)
    ELSE IF f.kind = "External" THEN <<[prim |-> f, passed |-> {}]>> \o PrimsOfFilter(f.filter)
    ELSE <<>>

RECURSIVE PrimsOf(_, _)
PrimsOf(n, passed) ==
    CASE n.kind = "Invocation" ->
            <<[prim |-> n.invocation, passed |-> passed]>> \o PrimsOfFilter(n.invocation.filter)
      [] n.kind = "Join" -> PrimsOf(n.lhs, passed) \o PrimsOf(n.rhs, passed \cup Supplied(n))
      [] n.kind = "StreamJoin" -> PrimsOf(n.stream, passed) \o PrimsOf(n.table, passed \cup Supplied(n))
      [] n.kind = "Filter" -> PrimsOf(n.table, passed) \o PrimsOfFilter(n.filter)
      [] n.kind \in {"EdgeFilter", "StreamFilter"} -> PrimsOf(n.stream, passed) \o PrimsOfFilter(n.filter)
      [] n.kind \in {"Projection", "Alias", "Aggregation", "Compute", "Monitor"} -> PrimsOf(n.table, passed)
      [] n.kind \in {"EdgeNew", "StreamAlias", "StreamProjection"} -> PrimsOf(n.stream, passed)
      [] OTHER -> <<>>

PrimsOfRule(rule) ==
    PrimsOf(SourceOf(rule), {}) \o [a \in 1..Len(rule.actions) |-> [prim |-> rule.actions[a], passed |-> {}]]

\* the number of Undefined slots a primitive holds for the name n
Slots(prim, n) ==
    Cardinality({k \in 1..Len(prim.in_params) :
                    prim.in_params[k].name = n /\ prim.in_params[k].value.kind = "Undefined"})

\* the names a primitive's own in_params bind to a value
Bound(prim) ==
    {prim.in_params[k].name : k \in {k \in 1..Len(prim.in_params) : prim.in_params[k].value.kind # "Undefined"}}

\* the rules whose check has ended successfully in this run
RulesEnded == {i \in 1..Len(ast.rules) : Logged(Event("ruleEnd", i, 0))}

\* C21: after a successful typeCheckRule, every primitive of the rule holds
\* exactly one Undefined slot for each required input of its schema that
\* neither its own in_params nor an enclosing Join's in_params supply, and
\* no Undefined slot for an input that is supplied.
C21_UndefinedSlots ==
    \A i \in RulesEnded :
        \A e \in Range(PrimsOfRule(ast.rules[i])) :
            \A n \in KeySet(SchemaOf(e.prim).inReq) :
                Slots(e.prim, n) = IF n \in Bound(e.prim) \cup e.passed THEN 0 ELSE 1

\* ------------------------------------------------------------------------
\* typeCheckPermissionRule as a state machine over the same variables: ast
\* holds the permission rule, scope the Scope of the stage that ran last,
\* pre.scope the Scope that stage was started with, pending the lookups of
\* getAllowedSchema still to complete.
\* ------------------------------------------------------------------------
Star == [isSpecified |-> FALSE, kind |-> "", channel |-> "", filter |-> FTrue, schema |-> 0]

Specified(kind, channel, filter) ==
    [isSpecified |-> TRUE, kind |-> kind, channel |-> channel, filter |-> filter, schema |-> 0]

PermissionRule(principal, query, action) == [principal |-> principal, query |-> query, action |-> action]

SourceIs == Atom("source", "=", VEntity("tt:contact"))

PrincipalFilters ==
    {FTrue, SourceIs, Atom("temperature", ">=", VMeasure("C")), Atom("source", "=", VEvent(""))}

AllowedQueries ==
    {Star, Specified("weather", "current", FTrue), Specified("weather", "current", Hot),
     Specified("weather", "current", SourceIs), Specified("weather", "current", Atom("status", "=", VEvent(""))),
     Specified("nowhere", "get", FTrue)}

AllowedActions ==
    {Star, Specified("post", "post", FTrue), Specified("post", "post", Atom("status", "=", VVarRef("status"))),
     Specified("post", "post", Atom("status", "=", VEvent(""))), Specified("post", "post", Hot),
     Specified("post", "post", SourceIs), Specified("nowhere", "post", FTrue)}

PermissionRules ==
    {PermissionRule(p, q, a) : p \in PrincipalFilters, q \in AllowedQueries, a \in AllowedActions}

Allowed == {"query", "action"}

StageNumber(f) == IF f = "query" THEN 1 ELSE 2

PermInit ==
    /\ ast \in PermissionRules
    /\ m = InitM
    /\ scope = Scope_new
    /\ pc = "allowed"
    /\ di = 1
    /\ ri = 1
    /\ pending = {}
    /\ immediate = {}
    /\ run = 1
    /\ log = <<>>
    /\ pre = NoSnapshot
    /\ first = <<>>

\* Promise.all([getAllowedSchema(query), getAllowedSchema(action)]): both
\* calls are made; one that is specified and holds no schema starts a lookup
getAllowedSchemas ==
    /\ pc = "allowed"
    /\ pending' = {f \in Allowed : ast[f].isSpecified /\ ast[f].schema = 0}
    /\ pc' = "principal"
    /\ log' = log \o <<Event("allowedStart", 0, 0)>>
    /\ UNCHANGED <<ast, m, scope, di, ri, immediate, run, pre, first>>

\* the continuation of a lookup of getAllowedSchema: allowed.schema = schema.
\* It runs whether or not the other lookup has failed.
getAllowedSchema(f) ==
    /\ pc \in {"principal", "failed"}
    /\ f \in pending
    /\ pending' = pending \ {f}
    /\ \E ref \in {getSchemaForSelector(ast[f].kind)} :
          /\ ast' = IF ref = 0 THEN ast ELSE [ast EXCEPT ![f].schema = ref]
          /\ m' = IF ref = 0 THEN Throw(m, "UnknownFunction") ELSE m
          /\ pc' = IF ref = 0 THEN "failed" ELSE pc
          /\ log' = log \o <<Event(IF ref = 0 THEN "fail" ELSE "allowedEnd", StageNumber(f), 0)>>
    /\ UNCHANGED <<scope, di, ri, immediate, run, pre, first>>

\* const scope = new Scope(); scope.add('source', Type.Entity('tt:contact'))
PrincipalScope == Scope_add(Scope_new, "source", TEntity("tt:contact"))

\* a function scope that is the scope of the principal's stage: the variant
\* against which the freshness of the second scope is tested
FunctionScopeKept(principalScope) == principalScope

\* const scope = new Scope(), in the handler that follows the principal's
FunctionScope(principalScope) == Scope_new

RECURSIVE AddOutputs(_, _)
\* for (let name in fn.schema.out) scope.add(name, fn.schema.out[name])
AddOutputs(sc, out) ==
    IF out = <<>> THEN sc ELSE AddOutputs(Scope_add(sc, Head(out).k, Head(out).v), Tail(out))

\* typecheckPermissionFunction(fn): [n, sc, m]
typecheckPermissionFunction(fn, sc, heap) ==
    IF ~fn.isSpecified THEN [n |-> fn, sc |-> sc, m |-> heap]
    ELSE Then(typeCheckFilter(fn.filter, fn.schema, sc, heap), LAMBDA f :
              [n |-> [fn EXCEPT !.filter = f.n],
               sc |-> IF Ok(f.m) THEN AddOutputs(f.sc, f.m.S[fn.schema].out) ELSE f.sc,
               m |-> f.m])

\* the handler after Promise.all: the principal's filter, with no schema
permissionPrincipal ==
    /\ pc = "principal"
    /\ pending = {}
    /\ \E r \in {typeCheckFilter(ast.principal, 0, PrincipalScope, m)} :
          /\ ast' = [ast EXCEPT !.principal = r.n]
          /\ scope' = r.sc
          /\ m' = r.m
          /\ pc' = IF Ok(r.m) THEN "query" ELSE "failed"
          /\ log' = log \o <<Event("principalStart", 0, 0),
                             Event(IF Ok(r.m) THEN "principalEnd" ELSE "fail", 0, 0)>>
    /\ pre' = [pre EXCEPT !.scope = PrincipalScope]
    /\ UNCHANGED <<di, ri, pending, immediate, run, first>>

\* the next handler: typecheckPermissionFunction(permissionRule.query)
permissionQuery ==
    /\ pc = "query"
    /\ \E r \in {typecheckPermissionFunction(ast.query, FunctionScope(scope), m)} :
          /\ ast' = [ast EXCEPT !.query = r.n]
          /\ scope' = r.sc
          /\ m' = r.m
          /\ pc' = IF Ok(r.m) THEN "action" ELSE "failed"
          /\ log' = log \o <<Event("functionStart", 1, 0),
                             Event(IF Ok(r.m) THEN "functionEnd" ELSE "fail", 1, 0)>>
    /\ pre' = [pre EXCEPT !.scope = FunctionScope(scope)]
    /\ UNCHANGED <<di, ri, pending, immediate, run, first>>

\* scope.$has_event = true; typecheckPermissionFunction(permissionRule.action)
permissionAction ==
    /\ pc = "action"
    /\ \E r \in {typecheckPermissionFunction(ast.action, [scope EXCEPT !.has_event = TRUE], m)} :
          /\ ast' = [ast EXCEPT !.action = r.n]
          /\ scope' = r.sc
          /\ m' = r.m
          /\ pc' = IF Ok(r.m) THEN "done" ELSE "failed"
          /\ log' = log \o <<Event("functionStart", 2, 0),
                             Event(IF Ok(r.m) THEN "functionEnd" ELSE "fail", 2, 0)>>
    /\ pre' = [pre EXCEPT !.scope = [scope EXCEPT !.has_event = TRUE]]
    /\ UNCHANGED <<di, ri, pending, immediate, run, first>>

PermNext ==
    \/ getAllowedSchemas
    \/ \E f \in Allowed : getAllowedSchema(f)
    \/ permissionPrincipal
    \/ permissionQuery
    \/ permissionAction

PermSpec == PermInit /\ [][PermNext]_vars

\* the outputs the allowed query publishes
QueryOutputs == IF ast.query.isSpecified /\ ast.query.schema # 0 THEN m.S[ast.query.schema].out ELSE Empty

\* the names the schema of an allowed function has
FunctionParams(fn) ==
    IF fn.schema = 0 THEN {}
    ELSE KeySet(m.S[fn.schema].inReq) \cup KeySet(m.S[fn.schema].inOpt) \cup KeySet(m.S[fn.schema].out)

\* the action's filter is one atom that names, beside the action's own
\* parameters, only outputs of the query and $event
ActionRefersToQuery ==
    /\ ast.action.isSpecified /\ ast.action.filter.kind = "Atom"
    /\ ast.action.filter.name \in FunctionParams(ast.action) \cup KeySet(QueryOutputs)
    /\ \/ ast.action.filter.value.kind \in {"Event", "Measure"}
       \/ ast.action.filter.value.kind = "VarRef" /\ Has(QueryOutputs, ast.action.filter.value.name)

\* C22: the stages of typeCheckPermissionRule.  The lookups of both allowed
\* schemas complete before the principal's filter is checked; that filter
\* is checked in a scope holding only source : Entity(tt:contact); the
\* query's filter in a new, empty scope without $event; the query's outputs
\* are in the scope only once its filter has succeeded, and $has_event is
\* set after that; the action's filter is checked last, with the query's
\* outputs and $event in scope, and not with source; no stage starts after
\* a failure.
C22_PermissionStages ==
    /\ Logged(Event("principalStart", 0, 0)) =>
          pending = {} /\ \A f \in Allowed : ast[f].isSpecified => ast[f].schema # 0
    /\ Logged(Event("principalStart", 0, 0)) /\ ~Logged(Event("functionStart", 1, 0)) =>
          pre.scope = [Scope_new EXCEPT !.scope = <<Entry("source", TEntity("tt:contact"))>>]
    /\ Logged(Event("functionStart", 1, 0)) /\ ~Logged(Event("functionStart", 2, 0)) =>
          /\ pre.scope = Scope_new
          /\ ~scope.has_event
          /\ scope.scope = IF Logged(Event("functionEnd", 1, 0)) THEN QueryOutputs ELSE Empty
          /\ ast.query.filter.kind = "Atom" /\ ast.query.filter.name = "source" =>
                m.err = "InvalidFilterParameter"
          /\ ast.query.filter.kind = "Atom" /\ ast.query.filter.value.kind = "Event" =>
                m.err = "VariableNotInScope"
    /\ Logged(Event("functionStart", 2, 0)) =>
          /\ pre.scope = [Scope_new EXCEPT !.scope = QueryOutputs, !.has_event = TRUE]
          /\ ActionRefersToQuery => pc = "done"
          /\ ast.action.isSpecified /\ ast.action.filter.kind = "Atom" /\ ast.action.filter.name = "source" =>
                m.err = "InvalidFilterParameter"
    /\ \A k, l \in 1..Len(log) :
          k < l =>
              /\ log[k].ev = "fail" => log[l].ev \notin {"principalStart", "functionStart"}
              /\ log[l].ev = "principalStart" => log[k].ev \in {"allowedStart", "allowedEnd"}
              /\ log[k].ev = "functionStart" /\ log[k].i = 2 => log[l].ev \in {"functionEnd", "fail"}

\* all the stages have succeeded on a rule whose principal names source,
\* whose query has a filter and whose action's filter names $event
C22_Witness ==
    /\ pc = "done"
    /\ ast.principal.kind = "Atom" /\ ast.principal.name = "source"
    /\ ast.query.isSpecified /\ ast.query.filter.kind = "Atom"
    /\ ast.action.isSpecified /\ ast.action.filter.kind = "Atom" /\ ast.action.filter.value.kind = "Event"
    /\ Logged(Event("allowedEnd", 1, 0)) /\ Logged(Event("allowedEnd", 2, 0))

\* ------------------------------------------------------------------------
\* The state a declaration leaves behind
\* ------------------------------------------------------------------------
\* the names under which the filter f binds the variable p
RECURSIVE CallSitesInFilter(_, _)
CallSitesInParams(in_params, p) ==
    {in_params[k].name : k \in {k \in 1..Len(in_params) :
                                    in_params[k].value.kind = "VarRef" /\ in_params[k].value.name = p}}

CallSitesInFilter(f, p) ==
    IF f.kind \in {"And", "Or"} THEN UNION {CallSitesInFilter(f.operands[k], p) : k \in 1..Len(f.operands)}
    ELSE IF f.kind = "Not" THEN CallSitesInFilter(f.expr, p)
    ELSE IF f.kind = "Atom" THEN (IF f.value.kind = "VarRef" /\ f.value.name = p THEN {f.name} ELSE {})
    ELSE IF f.kind = "External" THEN CallSitesInParams(f.in_params, p) \cup CallSitesInFilter(f.filter, p)
    ELSE {}

\* the names under which the value n of a declaration binds the variable p
RECURSIVE CallSites(_, _)
CallSites(n, p) ==
    CASE n.kind = "Action" -> CallSitesInParams(n.in_params, p)
      [] n.kind = "Invocation" ->
            CallSitesInParams(n.invocation.in_params, p) \cup CallSitesInFilter(n.invocation.filter, p)
      [] n.kind = "VarRef" -> CallSitesInParams(n.in_params, p)
      [] n.kind = "Join" -> CallSites(n.lhs, p) \cup CallSites(n.rhs, p) \cup CallSitesInParams(n.in_params, p)
      [] n.kind = "StreamJoin" ->
            CallSites(n.stream, p) \cup CallSites(n.table, p) \cup CallSitesInParams(n.in_params, p)
      [] n.kind = "Filter" -> CallSites(n.table, p) \cup CallSitesInFilter(n.filter, p)
      [] n.kind \in {"EdgeFilter", "StreamFilter"} -> CallSites(n.stream, p) \cup CallSitesInFilter(n.filter, p)
      [] n.kind \in {"Projection", "Alias", "Aggregation", "Compute", "Monitor"} -> CallSites(n.table, p)
      [] n.kind \in {"EdgeNew", "StreamAlias", "StreamProjection"} -> CallSites(n.stream, p)
      [] OTHER -> {}

\* the declaration whose check was the last thing to end, 0 when there is none
JustDeclared ==
    IF log # <<>> /\ log[Len(log)].ev = "declEnd" THEN log[Len(log)].i ELSE 0

\* the declaration whose check was the last thing to fail, 0 when there is none
JustRefused ==
    IF Len(log) >= 2 /\ log[Len(log)].ev = "fail" /\ log[Len(log) - 1].ev = "declStart"
    THEN log[Len(log)].i ELSE 0

\* the lambda parameter p of the declaration decl stands in the schema in
\* place of the name q
Renamed(decl, schema, p, q) ==
    /\ Has(schema.inReq, p) /\ Get(schema.inReq, p) = Get(decl.args, p)
    /\ q \notin Range(schema.args)
    /\ ~Has(m.X[schema.index], q)
    /\ ~Has(schema.inReq, q) /\ ~Has(schema.inOpt, q) /\ ~Has(schema.out, q)

\* the scope is as a finished declaration is to leave it
DeclaredScope(decl) ==
    /\ Has(scope.globalScope, decl.name)
    /\ Get(scope.globalScope, decl.name) # decl.value.schema
    /\ \A p \in KeySet(decl.args) : ~Has(scope.scope, p) /\ ~Has(scope.globalScope, p)
    /\ scope.scope = Empty /\ scope.inReq = Empty /\ scope.lambda_args = Empty

\* C23: after a successful typeCheckDeclaration the scope has the global
\* name bound to a clone of the value's schema in which every lambda
\* parameter p bound at a call site under another name q stands as a
\* required input of its declared type in place of q, q being absent from
\* args, index, inReq, inOpt and out; the lambda parameters are neither
\* locals nor globals; locals, inReq and lambdaArgs are empty; and a second
\* declaration of a name is refused with Conflict.
C23_DeclarationPostcondition ==
    /\ JustDeclared # 0 =>
          \A decl \in {ast.declarations[JustDeclared]} :
              /\ DeclaredScope(decl)
              /\ \A p \in KeySet(decl.args) : \A q \in CallSites(decl.value, p) \ {p} :
                    Renamed(decl, m.S[Get(scope.globalScope, decl.name)], p, q)
    /\ \A d \in 1..Len(ast.declarations) : \A e \in 1..(d - 1) :
          ast.declarations[e].name = ast.declarations[d].name =>
              /\ ~Logged(Event("declEnd", d, 0))
              /\ JustRefused = d /\ ast.declarations[d].value.schema # 0 => m.err = "Conflict"

\* ------------------------------------------------------------------------
\* Windows and sequences
\* ------------------------------------------------------------------------
RangeKinds == {"Window", "TimeSeries", "Sequence", "History"}

Counted(n) == n.kind \in {"Window", "Sequence"}

\* base and delta are Number and Number for a counted range, Date and
\* Measure(ms) for a timed one
RightRange(n) ==
    IF Counted(n) THEN getType(n.base) = TNumber /\ getType(n.delta) = TNumber
    ELSE getType(n.base) = TDate /\ getType(n.delta) = TMeasure("ms")

InnerOf(n) == IF n.kind \in {"Window", "TimeSeries"} THEN n.stream ELSE n.table

\* the inner stream or table of n type-checks by itself
InnerChecks(n, sc, heap) ==
    IF n.kind \in {"Window", "TimeSeries"} THEN Ok(typeCheckStream(n.stream, sc, FALSE, heap).m)
    ELSE Ok(typeCheckTable(n.table, sc, FALSE, heap).m)

\* typeCheckRule is about to check a rule whose source is a range
RangeNext == pc = "ruleLoop" /\ ~AtEnd(ri, ast.rules) /\ SourceOf(ast.rules[ri]).kind \in RangeKinds

\* C24: a Sequence or Window with Number base and delta, and a History or
\* TimeSeries with Date base and Measure(ms) delta, succeeds whenever its
\* inner table or stream type-checks, and its schema is then a clone equal
\* to the inner schema; other base and delta types are rejected with
\* InvalidRange (counted) or InvalidTimeRange (timed).
C24_Ranges ==
    [][RangeNext =>
          \A n \in {SourceOf(ast.rules[ri])} : \A after \in {SourceOf(ast'.rules[ri])} :
              /\ ~RightRange(n) =>
                    pc' = "failed" /\ m'.err = IF Counted(n) THEN "InvalidRange" ELSE "InvalidTimeRange"
              /\ RightRange(n) /\ InnerChecks(n, Scope_clean(scope, NoArgs), m) =>
                    /\ pc' = "actions"
                    /\ after.schema # 0 /\ after.schema # InnerOf(after).schema
                    /\ SchemaView(m', after.schema) = SchemaView(m', InnerOf(after).schema)]_vars

\* ------------------------------------------------------------------------
\* Overload resolution as a state machine of its own: one call of one of
\* the three resolvers, its arguments drawn from the operators and types
\* below.  ast holds the call, log its answer.
\* ------------------------------------------------------------------------
OperandTypeSet ==
    {TNumber, TString, TBoolean, TDate, TLocation, TAny,
     TMeasure("C"), TMeasure("ms"), TEntity("tt:username")}

FilterOperators == {">", ">=", "<", "=", "!=", "=~", "+", "&&", "~"}
ScalarOperators == {"+", "-", "*", "/", "%"}
AggregationOperators == {"count", "min", "max", "sum", "avg", "median"}

OverloadCall(table, operator, lhs, rhs, field, typeScope) ==
    [table |-> table, operator |-> operator, lhs |-> lhs, rhs |-> rhs, field |-> field,
     typeScope |-> typeScope]

\* types with variables, and the type-variable scopes they are resolved in
VariableTypes ==
    {TVar("a"), TVar("string"), TArray(TVar("a")), TArray(TArray(TVar("string"))),
     TTuple(<<TVar("a"), TNumber>>), TTuple(<<TVar("string"), TMeasure("")>>),
     TMeasure(""), TMeasure("ms"), TArray(TMeasure("")), TNumber, TArray(TString)}
TypeScopes ==
    {Empty, <<Entry("a", TNumber)>>, <<Entry("string", TString)>>,
     <<Entry("a", TArray(TNumber)), Entry("string", TDate)>>,
     <<Entry("_unit", Ty("unit", "C"))>>,
     <<Entry("a", TString), Entry("_unit", Ty("unit", "C"))>>,
     <<Entry("a", TMeasure("C")), Entry("string", TMeasure("ms")), Entry("_unit", Ty("unit", "ms"))>>}

\* the fields an aggregation is asked for are outputs of the weather schema
OverloadCalls ==
    {OverloadCall("filter", o, l, r, "", Empty) : o \in FilterOperators, l \in OperandTypeSet, r \in OperandTypeSet}
    \cup {OverloadCall("scalar", o, l, r, "", Empty) : o \in ScalarOperators, l \in OperandTypeSet, r \in OperandTypeSet}
    \cup {OverloadCall("aggregation", o, Undef, Undef, f, Empty) :
              o \in AggregationOperators, f \in {"temperature", "status"}}
    \cup {OverloadCall("typeVars", "", t, Undef, "", ts) : t \in VariableTypes, ts \in TypeScopes}

OverloadInit ==
    /\ ast \in OverloadCalls
    /\ m = InitM
    /\ scope = Scope_new
    /\ pc = "resolve"
    /\ di = 1
    /\ ri = 1
    /\ pending = {}
    /\ immediate = {}
    /\ run = 1
    /\ log = <<>>
    /\ pre = NoSnapshot
    /\ first = <<>>

filterOverload ==
    /\ pc = "resolve" /\ ast.table = "filter"
    /\ log' = <<resolveFilterOverload(ast.lhs, ast.operator, ast.rhs)>>
    /\ pc' = "resolved"
    /\ UNCHANGED <<ast, m, scope, di, ri, pending, immediate, run, pre, first>>

scalarOverload ==
    /\ pc = "resolve" /\ ast.table = "scalar"
    /\ log' = <<resolveScalarExpressionOps(ast.lhs, ast.operator, ast.rhs)>>
    /\ pc' = "resolved"
    /\ UNCHANGED <<ast, m, scope, di, ri, pending, immediate, run, pre, first>>

aggregationOverload ==
    /\ pc = "resolve" /\ ast.table = "aggregation"
    /\ log' = <<resolveAggregationOverload(ast.operator, ast.field, m.S[1])>>
    /\ pc' = "resolved"
    /\ UNCHANGED <<ast, m, scope, di, ri, pending, immediate, run, pre, first>>

typeVars ==
    /\ pc = "resolve" /\ ast.table = "typeVars"
    /\ log' = <<resolveTypeVars(ast.lhs, ast.typeScope)>>
    /\ pc' = "resolved"
    /\ UNCHANGED <<ast, m, scope, di, ri, pending, immediate, run, pre, first>>

OverloadNext == filterOverload \/ scalarOverload \/ aggregationOverload \/ typeVars

OverloadSpec == OverloadInit /\ [][OverloadNext]_vars

\* the signatures of the operator a call names, and its operand types
SignaturesOf(call) ==
    CASE call.table = "filter" -> BinaryOps(call.operator)
      [] call.table = "scalar" -> ScalarExpressionOps(call.operator)
      [] call.table = "aggregation" -> Aggregations(call.operator)
      [] OTHER -> <<>>

OperandsOf(call) ==
    IF call.table = "aggregation" THEN <<Get(m.S[1].out, call.field)>> ELSE <<call.lhs, call.rhs>>

\* every operand is assignable to its place in the signature under one
\* type-variable scope, empty at the first operand
RECURSIVE OperandsFit(_, _, _, _)
OperandsFit(sig, operands, i, ts) ==
    IF i > Len(operands) THEN TRUE
    ELSE IsAssignable(operands[i], sig[i], ts, TRUE).ok
         /\ OperandsFit(sig, operands, i + 1, IsAssignable(operands[i], sig[i], ts, TRUE).ts)

Matching(call) ==
    {i \in 1..Len(SignaturesOf(call)) : OperandsFit(SignaturesOf(call)[i], OperandsOf(call), 1, Empty)}

FirstMatching(call) == CHOOSE i \in Matching(call) : \A j \in Matching(call) : i <= j

\* the signature a resolver has answered with: the overload itself, or the
\* kind of the result type for the resolver that answers with a type
AnsweredWith(call, answer, sig) ==
    CASE call.table = "filter" -> answer.overload = sig
      [] call.table = "scalar" -> answer.type.k = sig[3].k
      [] call.table = "aggregation" ->
            Len(answer.overload) = 2 /\ answer.overload[1].k = sig[1].k /\ answer.overload[2].k = sig[2].k

Resolved == pc = "resolved"

\* C25: a resolver answers with the first signature, in table order, whose
\* places every operand is assignable to under one fresh type-variable
\* scope; it raises InvalidParameterTypes exactly when no signature of the
\* operator matches, and InvalidOperator for an operator the table lacks.
C25_FirstMatchingSignature ==
    Resolved /\ ast.table # "typeVars" =>
        /\ SignaturesOf(ast) = <<>> => log[1].err = "InvalidOperator"
        /\ SignaturesOf(ast) # <<>> =>
              /\ log[1].err = "InvalidParameterTypes" <=> Matching(ast) = {}
              /\ Matching(ast) # {} =>
                    log[1].err = "" /\ AnsweredWith(ast, log[1], SignaturesOf(ast)[FirstMatching(ast)])

\* ------------------------------------------------------------------------
\* Type variables
\* ------------------------------------------------------------------------
\* the type with every bound variable replaced by its binding, inside Array
\* and Tuple too, and a Measure replaced by the measure of the bound unit
RECURSIVE Substituted(_, _)
Substituted(type, ts) ==
    IF type.k = "var" THEN (IF Has(ts, type.p) THEN Substituted(Get(ts, type.p), ts) ELSE type)
    ELSE IF type.k = "Array" THEN TArray(Substituted(type.elem, ts))
    ELSE IF type.k = "Tuple" THEN TTuple([i \in 1..Len(type.schema) |-> Substituted(type.schema[i], ts)])
    ELSE IF type.k = "Measure" /\ Has(ts, "_unit") THEN TMeasure(Get(ts, "_unit").p)
    ELSE type

\* the variables of a type
RECURSIVE VariablesOf(_)
VariablesOf(type) ==
    IF type.k = "var" THEN {type.p}
    ELSE IF type.k = "Array" THEN VariablesOf(type.elem)
    ELSE IF type.k = "Tuple" THEN UNION {VariablesOf(type.schema[i]) : i \in 1..Len(type.schema)}
    ELSE {}

\* C26: resolveTypeVars replaces every type variable bound in the
\* type-variable scope by its binding, inside Array and Tuple too, and a
\* Measure by Measure(_unit) when _unit is bound; min and max over a field
\* of type T record the overload (T, T) and answer with the type T.
C26_TypeVariablesResolved ==
    /\ Resolved /\ ast.table = "typeVars" /\ VariablesOf(ast.lhs) \subseteq KeySet(ast.typeScope) =>
          log[1] = Substituted(ast.lhs, ast.typeScope)
    /\ Resolved /\ ast.table = "aggregation" /\ ast.operator \in {"min", "max"} /\ log[1].err = "" =>
          log[1].overload = <<Get(m.S[1].out, ast.field), Get(m.S[1].out, ast.field)>>

\* ------------------------------------------------------------------------
\* The scope from one rule to the next
\* ------------------------------------------------------------------------
DeclaredNames == {ast.declarations[d].name : d \in 1..Len(ast.declarations)}

\* the source of the rule is an alias of an invocation
TopLevelAlias(rule) ==
    \/ SourceOf(rule).kind = "Alias" /\ SourceOf(rule).table.kind = "Invocation"
    \/ SourceOf(rule).kind = "StreamAlias" /\ SourceOf(rule).stream.kind = "Monitor"

\* C27: when the check of a rule begins, the locals, conflicts, inReq and
\* lambdaArgs of the scope are empty and its globals are exactly the names
\* of the declarations, so that a global added while an earlier rule was
\* checked is not carried over and two rules may use the same alias name.
C27_RulesIsolated ==
    pre # NoSnapshot =>
        /\ pre.scope.scope = Empty /\ pre.scope.conflicts = {}
        /\ pre.scope.inReq = Empty /\ pre.scope.lambda_args = Empty
        /\ KeySet(pre.scope.globalScope) = DeclaredNames
        /\ TopLevelAlias(pre.rule) => m.err # "Conflict"

\* the declarations whose check has ended successfully in this run
DeclarationsEnded == {d \in 1..Len(ast.declarations) : Logged(Event("declEnd", d, 0))}

\* C28: once a declaration has been checked, its global stays in the scope,
\* bound to the same schema, through every later declaration and rule of
\* the run, whatever the lambda parameters of the later declarations are.
C28_DeclarationStaysBound ==
    [][run' = run /\ pc' # "failed" =>
          \A d \in DeclarationsEnded : \A name \in {ast.declarations[d].name} :
              Has(scope.globalScope, name) =>
                  /\ Has(scope'.globalScope, name)
                  /\ Get(scope'.globalScope, name) = Get(scope.globalScope, name)
                  /\ SchemaView(m', Get(scope.globalScope, name)) = SchemaView(m, Get(scope.globalScope, name))]_vars

\* ------------------------------------------------------------------------
\* The order in which the lookups of a rule's actions complete
\* ------------------------------------------------------------------------
\* the members of a set of numbers, ascending
RECURSIVE Ascending(_)
Ascending(S) ==
    IF S = {} THEN <<>>
    ELSE LET least == CHOOSE a \in S : \A b \in S : a <= b
         IN <<least>> \o Ascending(S \ {least})

\* the continuations of typeCheckOutput run one after the other in the
\* order given, the first error kept: [actions, sc, m]
RECURSIVE Continued(_, _, _, _)
Continued(actions, order, sc, heap) ==
    IF order = <<>> THEN [actions |-> actions, sc |-> sc, m |-> heap]
    ELSE Then(typeCheckOutput(actions[Head(order)], sc, FALSE, [heap EXCEPT !.err = ""]), LAMBDA r :
              Continued([actions EXCEPT ![Head(order)] = r.n], Tail(order), r.sc,
                        [r.m EXCEPT !.err = IF Ok(heap) THEN r.m.err ELSE heap.err]))

\* the outcome when the lookups complete in the order of the source
InSourceOrder(issue) ==
    Continued(issue.actions, Ascending(issue.immediate) \o Ascending(issue.pending \ issue.immediate),
              issue.scope, issue.m)

\* what a rule's check leaves: the error, the names and types of inReq, the
\* lambda renames, and the in_params of the actions with the Undefined slots
\* the end of the rule appends
RuleOutcome(actions, sc, heap) ==
    [err |-> heap.err, inReq |-> Range(sc.inReq), renames |-> Range(sc.lambda_args),
     in_params |-> IF Ok(heap)
                   THEN [a \in 1..Len(actions) |-> addRequiredInputParams(actions[a], sc, heap).in_params]
                   ELSE <<>>]

\* every lookup of the rule's actions has completed
ActionsCompleted == pc \in {"await", "failed"} /\ pre.issued.pending # {} /\ pending = {}

\* C29: whatever the order in which the lookups of a rule's actions
\* complete, the check ends in the same success or the same error, with the
\* same inReq, the same lambda renames and the same Undefined slots as when
\* they complete in the order of the source.
C29_OrderIndependent ==
    ActionsCompleted =>
        \A canon \in {InSourceOrder(pre.issued)} :
            RuleOutcome(ast.rules[ri].actions, scope, m) = RuleOutcome(canon.actions, canon.sc, canon.m)

\* ------------------------------------------------------------------------
\* Rules without a source
\* ------------------------------------------------------------------------
\* typeCheckRule has been given a rule without stream and table
SourcelessGiven == pre # NoSnapshot /\ Sourceless(pre.rule)

BuiltinActions(rule) == {a \in 1..Len(rule.actions) : rule.actions[a].selector.isBuiltin}

\* C30: a rule without stream and table in which at least one action has a
\* built-in selector is refused with NoGetFunction, whatever its other
\* actions are, before any action's schema is resolved or its input
\* parameters are checked; a rule without stream and table whose actions
\* are all not built-in is never refused with NoGetFunction.
C30_NoGetFunctionBeforeActions ==
    /\ SourcelessGiven /\ BuiltinActions(pre.rule) # {} =>
          /\ pc = "failed" /\ m.err = "NoGetFunction"
          /\ pending = {} /\ pre.issued = NoIssue
          /\ \A k \in 1..Len(log) : log[k].ev \notin {"actionStart", "actionEnd"}
          /\ ast.rules[ri] = pre.rule
          /\ \A a \in 1..Len(pre.rule.actions) : ast.rules[ri].actions[a].schema = 0
    /\ SourcelessGiven /\ BuiltinActions(pre.rule) = {} => m.err # "NoGetFunction"

\* a rule without a source that has a built-in action and another one
\* besides has been refused
C30_Witness ==
    /\ SourcelessGiven /\ pc = "failed"
    /\ Len(pre.rule.actions) = 2
    /\ BuiltinActions(pre.rule) # {} /\ BuiltinActions(pre.rule) # {1, 2}

====
